---- MODULE Spec2Model ----
(***************************************************************************)
(* A model of ditabase: the tokenizer, the parser, the Compiler (the       *)
(* in-memory store with its constraint checks) and the .dtb binary codec.  *)
(*                                                                         *)
(* A character is a one-character TLA+ string (the atom "e_acute" stands   *)
(* for U+00E9, the one character of the model that takes two bytes in      *)
(* UTF-8); a Python str is a sequence of characters; a Python dict keyed   *)
(* by str is a function whose domain is a set of such sequences; the       *)
(* insertion-ordered dict Compiler.tables is a sequence of table records.  *)
(***************************************************************************)
EXTENDS Integers, Sequences, FiniteSets, TLC

VARIABLES
    tables,     \* Compiler.tables of the Compiler instance in use
    file,       \* the .dtb file: [exists, bytes]
    pc,         \* "idle", or "run"/"runq" while compile() is inside its statement loop
    mode,       \* "fresh": a new Compiler per call (shell); "shared": the facade's
    steps,      \* statements applied so far by the running compile()
    loaded,     \* the load at the start of the running compile(): [ok, tables]
    last,       \* the last statement handled: the store before it, and its outcome
    nextUuid,   \* how many identifiers uuid.uuid4() has handed out
    batch,      \* the statement list of the running compile(), when it was given whole
    call,       \* the call in progress or made last: its kind, source text, parse
                \* error, the identifiers handed out and the file before it, and
                \* how deep the facade's execute has recursed
    other,      \* a second caller on the same file, with a Compiler of its own
    shell       \* DitabaseShell: multiline_buffer and in_multiline

vars == <<tables, file, pc, mode, steps, loaded, last, nextUuid, batch, call, other, shell>>

----------------------------------------------------------------------------
(* Bounds of the model *)

MaxRows == 3        \* rows per table
MaxBatch == 3       \* statements per compile() call
MaxUuid == 3        \* identifiers generated in one behaviour
MaxRowsMain == 10   \* rows per table where the PRIMARY threshold is exercised
MaxCodecRows == 2   \* rows per table of the stores drawn for the codec
MaxCrashRows == 1   \* rows per table where saves are interrupted
MaxRaceBatch == 2   \* statements per call where two callers share the file
MaxRaceRows == 1    \* rows per table where two callers share the file
MaxBoolRows == 2    \* rows per table where BOOL values are inserted
MaxDelRows == 2     \* rows per table where rows are deleted by condition
MaxDepth == 3       \* nested calls the interpreter allows before RecursionError
MaxLines == 2       \* lines the shell holds in its buffer

----------------------------------------------------------------------------
(* Characters and strings *)

Upper == <<"A","B","C","D","E","F","G","H","I","J","K","L","M",
           "N","O","P","Q","R","S","T","U","V","W","X","Y","Z">>
Lower == <<"a","b","c","d","e","f","g","h","i","j","k","l","m",
           "n","o","p","q","r","s","t","u","v","w","x","y","z">>
Digits == <<"0","1","2","3","4","5","6","7","8","9">>

Range(s) == {s[i] : i \in DOMAIN s}
IndexOf(s, c) == CHOOSE i \in DOMAIN s : s[i] = c

Others == {" ", "\n", "\"", "{", "}", ",", ";", "=", "_", "-", "+", "e_acute"}
Alphabet == Range(Upper) \cup Range(Lower) \cup Range(Digits) \cup Others

\* ord(c), the code point of a character
OrdOf(c) ==
    IF c \in Range(Upper) THEN 64 + IndexOf(Upper, c)
    ELSE IF c \in Range(Lower) THEN 96 + IndexOf(Lower, c)
    ELSE IF c \in Range(Digits) THEN 47 + IndexOf(Digits, c)
    ELSE CASE c = " " -> 32
           [] c = "\n" -> 10
           [] c = "\"" -> 34
           [] c = "{" -> 123
           [] c = "}" -> 125
           [] c = "," -> 44
           [] c = ";" -> 59
           [] c = "=" -> 61
           [] c = "_" -> 95
           [] c = "-" -> 45
           [] c = "+" -> 43
           [] c = "e_acute" -> 233

\* ord and chr as tables over the model's alphabet
OrdTable == [c \in Alphabet |-> OrdOf(c)]
Ord(c) == OrdTable[c]
CodePoints == {OrdTable[c] : c \in Alphabet}
ChrTable == [n \in CodePoints |-> CHOOSE c \in Alphabet : OrdTable[c] = n]

Min(a, b) == IF a < b THEN a ELSE b

\* the concatenation of Op(s[1]), ..., Op(s[Len(s)])
ConcatMap(Op(_), s) ==
    LET f[i \in 0..Len(s)] == IF i = 0 THEN <<>> ELSE f[i - 1] \o Op(s[i])
    IN  f[Len(s)]

\* sub in text, for Python strs
IsSubstring(sub, text) ==
    \E i \in 0..(Len(text) - Len(sub)) : SubSeq(text, i + 1, i + Len(sub)) = sub

----------------------------------------------------------------------------
(* The binary codec: struct.pack/unpack and str.encode/bytes.decode *)

\* str.encode('utf-8') of one character
Utf8Char(c) ==
    LET cp == Ord(c)
    IN  IF cp < 128 THEN <<cp>> ELSE <<192 + (cp \div 64), 128 + (cp % 64)>>

\* str.encode('utf-8')
Utf8Encode(s) == ConcatMap(Utf8Char, s)

\* bytes.decode('utf-8'): [ok, val]; a lead byte with no continuation byte
\* after it (a cut inside a character) raises UnicodeDecodeError. A byte value
\* that encodes no character of Alphabet is outside the model and is refused.
Utf8Decode(b) ==
    LET f[i \in 1..(Len(b) + 1)] ==
            IF i > Len(b) THEN [ok |-> TRUE, val |-> <<>>]
            ELSE IF b[i] < 128
                 THEN IF b[i] \in CodePoints
                      THEN LET r == f[i + 1]
                           IN  [ok |-> r.ok, val |-> <<ChrTable[b[i]]>> \o r.val]
                      ELSE [ok |-> FALSE, val |-> <<>>]
                 ELSE IF b[i] >= 192 /\ b[i] < 224 /\ i + 1 <= Len(b)
                         /\ b[i + 1] >= 128 /\ b[i + 1] < 192
                 THEN LET cp == (b[i] - 192) * 64 + (b[i + 1] - 128)
                      IN  IF cp \in CodePoints
                          THEN LET r == f[i + 2]
                               IN  [ok |-> r.ok, val |-> <<ChrTable[cp]>> \o r.val]
                          ELSE [ok |-> FALSE, val |-> <<>>]
                 ELSE [ok |-> FALSE, val |-> <<>>]
    IN  f[1]

\* struct.pack('!H', n) and struct.pack('!I', n), big-endian; n stays below the
\* field's limit in this model (struct.pack raises beyond it)
PackH(n) == <<(n \div 256) % 256, n % 256>>
PackI(n) == <<(n \div 16777216) % 256, (n \div 65536) % 256, (n \div 256) % 256, n % 256>>

\* f.read(n) at position pos (1-based): at most n bytes, fewer at end of file
Read(b, pos, n) == SubSeq(b, pos, Min(pos + n - 1, Len(b)))

\* The reader: [ok, pos, val] is the state of a read of the file: whether no
\* exception was raised so far, the position of the next byte (1-based) and the
\* value read last. A step applied to a failed reader leaves it failed.
Reader(pos) == [ok |-> TRUE, pos |-> pos, val |-> <<>>]
Failed(r) == [ok |-> FALSE, pos |-> r.pos, val |-> <<>>]
Ret(r, v) == [ok |-> r.ok, pos |-> r.pos, val |-> v]

\* struct.unpack('!H', f.read(2))[0]: struct.error on a short read
UnpackH(b, r) ==
    IF r.ok /\ r.pos + 1 <= Len(b)
    THEN [ok |-> TRUE, pos |-> r.pos + 2, val |-> b[r.pos] * 256 + b[r.pos + 1]]
    ELSE Failed(r)

\* struct.unpack('!I', f.read(4))[0]
UnpackI(b, r) ==
    IF r.ok /\ r.pos + 3 <= Len(b)
    THEN [ok |-> TRUE, pos |-> r.pos + 4,
          val |-> b[r.pos] * 16777216 + b[r.pos + 1] * 65536
                    + b[r.pos + 2] * 256 + b[r.pos + 3]]
    ELSE Failed(r)

\* f.read(n).decode('utf-8') for the length n just read: a short read decodes
\* what is there
ReadDecoded(b, r, d) ==
    IF d.ok THEN [ok |-> TRUE, pos |-> Min(r.pos + r.val, Len(b) + 1), val |-> d.val]
    ELSE Failed(r)
ReadStr(b, r) == IF r.ok THEN ReadDecoded(b, r, Utf8Decode(Read(b, r.pos, r.val))) ELSE r

\* a str preceded by its uint16 / uint32 length
ReadStrH(b, r) == ReadStr(b, UnpackH(b, r))
ReadStrI(b, r) == ReadStr(b, UnpackI(b, r))

Magic == <<68, 84, 66, 49>>     \* b'DTB1'
\* the .dtb file: whether os.path.exists(file_path), and its content
NoFile == [exists |-> FALSE, bytes |-> <<>>]
FileOf(b) == [exists |-> TRUE, bytes |-> b]

\* a str preceded by its byte length as uint16 / uint32
EncStrH(s) == LET b == Utf8Encode(s) IN PackH(Len(b)) \o b
EncStrI(s) == LET b == Utf8Encode(s) IN PackI(Len(b)) \o b

EncColumn(col) ==
    EncStrH(col.name) \o EncStrH(col.type)
        \o PackH(Len(col.constraints)) \o ConcatMap(EncStrH, col.constraints)

\* a variant of EncTable that writes each row's values in reverse column order
EncTable_ReversedValues(tb) ==
    LET Rev(q) == [i \in DOMAIN q |-> q[Len(q) + 1 - i]]
        EncValue(row) == LET E(col) == EncStrI(row[col.name]) IN ConcatMap(E, Rev(tb.columns))
    IN  EncStrH(tb.name)
            \o PackH(Len(tb.columns)) \o ConcatMap(EncColumn, tb.columns)
            \o PackI(Len(tb.data)) \o ConcatMap(EncValue, tb.data)

EncTable(tb) ==
    LET EncValue(row) == LET E(col) == EncStrI(row[col.name]) IN ConcatMap(E, tb.columns)
    IN  EncStrH(tb.name)
            \o PackH(Len(tb.columns)) \o ConcatMap(EncColumn, tb.columns)
            \o PackI(Len(tb.data)) \o ConcatMap(EncValue, tb.data)

\* Compiler.save_to_file: the bytes written
save_to_file(tbls) == Magic \o PackI(Len(tbls)) \o ConcatMap(EncTable, tbls)

----------------------------------------------------------------------------
(* Compiler.tables: a dict that keeps insertion order *)

\* name in self.tables
DictHas(tbls, name) == \E i \in DOMAIN tbls : tbls[i].name = name

\* self.tables[name]
DictGet(tbls, name) == tbls[CHOOSE i \in DOMAIN tbls : tbls[i].name = name]

\* self.tables[tb.name] = tb: an existing key keeps its position
DictSet(tbls, tb) ==
    IF DictHas(tbls, tb.name)
    THEN [i \in DOMAIN tbls |-> IF tbls[i].name = tb.name THEN tb ELSE tbls[i]]
    ELSE Append(tbls, tb)

\* del self.tables[name]
DictDel(tbls, name) == SelectSeq(tbls, LAMBDA tb : tb.name # name)

\* parser.Column
Column(name, type, constraints) == [name |-> name, type |-> type, constraints |-> constraints]

\* row[k] = v on a dict row
RowSet(row, k, v) == [x \in (DOMAIN row) \cup {k} |-> IF x = k THEN v ELSE row[x]]

\* row.get(k) == v
RowGetEq(row, k, v) == k \in DOMAIN row /\ row[k] = v

EmptyRow == <<>>

\* {name: value} and {n1: v1, n2: v2}
Dict1(n, v) == [x \in {n} |-> v]
Dict2(n1, v1, n2, v2) == [x \in {n1, n2} |-> IF x = n1 THEN v1 ELSE v2]

----------------------------------------------------------------------------
(* Compiler.load_existing_data *)

\* the constraints of a column (compiler.py 48-51)
RECURSIVE DecConstraints(_, _, _, _)
DecConstraintsStep(b, s, n, acc) == DecConstraints(b, s, n - 1, Append(acc, s.val))
DecConstraints(b, r, n, acc) ==
    IF ~r.ok THEN r
    ELSE IF n = 0 THEN Ret(r, acc)
    ELSE DecConstraintsStep(b, ReadStrH(b, r), n, acc)
DecConstraintsCounted(b, h) == IF h.ok THEN DecConstraints(b, h, h.val, <<>>) ELSE h
DecConstraintList(b, r) == DecConstraintsCounted(b, UnpackH(b, r))

\* one column: name, type, constraints (compiler.py 37-53)
ColumnNameType(nm, ty) == IF ty.ok THEN Ret(ty, <<nm.val, ty.val>>) ELSE ty
ColumnMake(nt, cs) == IF cs.ok THEN Ret(cs, Column(nt.val[1], nt.val[2], cs.val)) ELSE cs
DecColumnType(b, nm) == ColumnNameType(nm, ReadStrH(b, nm))
DecColumnConstraints(b, nt) == ColumnMake(nt, DecConstraintList(b, nt))
DecColumn(b, r) == DecColumnConstraints(b, DecColumnType(b, ReadStrH(b, r)))

RECURSIVE DecColumns(_, _, _, _)
DecColumnsStep(b, c, n, acc) == DecColumns(b, c, n - 1, Append(acc, c.val))
DecColumns(b, r, n, acc) ==
    IF ~r.ok THEN r
    ELSE IF n = 0 THEN Ret(r, acc)
    ELSE DecColumnsStep(b, DecColumn(b, r), n, acc)
DecColumnsCounted(b, h) == IF h.ok THEN DecColumns(b, h, h.val, <<>>) ELSE h
DecColumnList(b, r) == DecColumnsCounted(b, UnpackH(b, r))

\* one row: a value per column, in column order, into a dict keyed by column
\* name (compiler.py 60-64)
RECURSIVE DecRow(_, _, _, _, _)
DecRowStep(b, v, cols, i, row) ==
    IF v.ok THEN DecRow(b, v, cols, i + 1, RowSet(row, cols[i].name, v.val)) ELSE v
DecRow(b, r, cols, i, row) ==
    IF ~r.ok THEN r
    ELSE IF i > Len(cols) THEN Ret(r, row)
    ELSE DecRowStep(b, ReadStrI(b, r), cols, i, row)

RECURSIVE DecRows(_, _, _, _, _)
DecRowsStep(b, w, cols, n, acc) == DecRows(b, w, cols, n - 1, Append(acc, w.val))
DecRows(b, r, cols, n, acc) ==
    IF ~r.ok THEN r
    ELSE IF n = 0 THEN Ret(r, acc)
    ELSE DecRowsStep(b, DecRow(b, r, cols, 1, EmptyRow), cols, n, acc)
DecRowsCounted(b, h, cols) == IF h.ok THEN DecRows(b, h, cols, h.val, <<>>) ELSE h
DecRowList(b, r, cols) == DecRowsCounted(b, UnpackI(b, r), cols)

\* one table: name, columns, rows (compiler.py 28-65)
TableNameColumns(nm, cols) == IF cols.ok THEN Ret(cols, <<nm.val, cols.val>>) ELSE cols
TableMake(nc, rows) ==
    IF rows.ok
    THEN Ret(rows, [name |-> nc.val[1], columns |-> nc.val[2], data |-> rows.val])
    ELSE rows
DecTableColumns(b, nm) == TableNameColumns(nm, DecColumnList(b, nm))
DecTableRows(b, nc) == IF nc.ok THEN TableMake(nc, DecRowList(b, nc, nc.val[2])) ELSE nc
DecTable(b, r) == DecTableRows(b, DecTableColumns(b, ReadStrH(b, r)))

\* the loop over tables: each decoded table is stored into self.tables as soon as
\* it is complete (compiler.py 67), so an exception later in the file leaves the
\* earlier ones there
RECURSIVE DecTables(_, _, _, _)
DecTablesStep(b, t, n, tbls) ==
    IF t.ok THEN DecTables(b, t, n - 1, DictSet(tbls, t.val))
    ELSE [ok |-> FALSE, tables |-> tbls]
DecTables(b, r, n, tbls) ==
    IF n = 0 THEN [ok |-> TRUE, tables |-> tbls]
    ELSE DecTablesStep(b, DecTable(b, r), n, tbls)
DecTablesCounted(b, h, tbls) ==
    IF h.ok THEN DecTables(b, h, h.val, tbls) ELSE [ok |-> FALSE, tables |-> tbls]

\* Compiler.load_existing_data(file_path) on a Compiler whose tables are tbls:
\* [ok, tables]; ok = FALSE when it raises
load_existing_data(f, tbls) ==
    IF ~f.exists THEN [ok |-> TRUE, tables |-> tbls]
    ELSE IF Read(f.bytes, 1, 4) # Magic THEN [ok |-> FALSE, tables |-> tbls]
    ELSE DecTablesCounted(f.bytes, UnpackI(f.bytes, Reader(5)), tbls)

----------------------------------------------------------------------------
(* Python's int(str), as the validation of insert_data uses it *)

IsSpace(c) == c \in {" ", "\n"}

\* str.strip()
Strip(s) ==
    IF \A i \in DOMAIN s : IsSpace(s[i]) THEN <<>>
    ELSE LET a == CHOOSE i \in DOMAIN s : ~IsSpace(s[i]) /\ \A j \in 1..(i - 1) : IsSpace(s[j])
             z == CHOOSE i \in DOMAIN s : ~IsSpace(s[i]) /\ \A j \in (i + 1)..Len(s) : IsSpace(s[j])
         IN  SubSeq(s, a, z)

\* the digits of an integer literal: digits, with single underscores between them
IsDigitRun(d) ==
    /\ Len(d) > 0
    /\ d[1] \in Range(Digits) /\ d[Len(d)] \in Range(Digits)
    /\ \A i \in DOMAIN d : d[i] \in Range(Digits) \cup {"_"}
    /\ \A i \in 1..(Len(d) - 1) : ~(d[i] = "_" /\ d[i + 1] = "_")

\* the magnitude of a digit run: its decimal digits without underscores and
\* without leading zeros (<<>> for zero); Python ints are unbounded, so the
\* magnitude is kept as digits, never as a machine integer
DigitRunMag(d) ==
    LET f[i \in 0..Len(d)] ==
            IF i = 0 THEN <<>>
            ELSE IF d[i] = "_" THEN f[i - 1]
            ELSE IF f[i - 1] = <<>> /\ d[i] = "0" THEN <<>>
            ELSE Append(f[i - 1], IndexOf(Digits, d[i]) - 1)
    IN  f[Len(d)]

\* a <= b on magnitudes
MagLE(a, b) ==
    \/ Len(a) < Len(b)
    \/ /\ Len(a) = Len(b)
       /\ \/ a = b
          \/ \E i \in DOMAIN a : a[i] < b[i] /\ \A j \in 1..(i - 1) : a[j] = b[j]

\* int(value): [ok, neg, mag]; ok = FALSE when it raises ValueError
PyInt(value) ==
    LET t == Strip(value)
        signed == Len(t) > 0 /\ t[1] \in {"+", "-"}
        d == IF signed THEN Tail(t) ELSE t
    IN  IF IsDigitRun(d)
        THEN [ok |-> TRUE, neg |-> signed /\ t[1] = "-" /\ DigitRunMag(d) # <<>>,
              mag |-> DigitRunMag(d)]
        ELSE [ok |-> FALSE, neg |-> FALSE, mag |-> <<>>]

\* lo <= num <= hi, for lo = -negMax and hi = posMax
InRange(n, negMax, posMax) == IF n.neg THEN MagLE(n.mag, negMax) ELSE MagLE(n.mag, posMax)

----------------------------------------------------------------------------
(* Statements (parser.py) and the store operations of the Compiler *)

Str_UUID == <<"U","U","I","D">>
Str_STR == <<"S","T","R">>
Str_PASSWORD == <<"P","A","S","S","W","O","R","D">>
Str_INT16 == <<"I","N","T","1","6">>
Str_INT32 == <<"I","N","T","3","2">>
Str_INT64 == <<"I","N","T","6","4">>
Str_CHAR == <<"C","H","A","R">>
Str_BOOL == <<"B","O","O","L">>
Str_UNIQUE == <<"U","N","I","Q","U","E">>
Str_PRIMARY == <<"P","R","I","M","A","R","Y">>

CreateTableStatement(name, columns, ine) ==
    [kind |-> "CreateTable", table |-> [name |-> name, columns |-> columns], if_not_exists |-> ine]
InsertStatement(name, values) == [kind |-> "Insert", table_name |-> name, values |-> values]
DeleteStatement(name, conditions) == [kind |-> "Delete", table_name |-> name, conditions |-> conditions]
DeleteTableStatement(name) == [kind |-> "DeleteTable", table_name |-> name]
RemoveTableStatement(name) == [kind |-> "RemoveTable", table_name |-> name]
PrintTableStatement(name) == [kind |-> "PrintTable", table_name |-> name]
PrintItemStatement(name, column, conditions) ==
    [kind |-> "PrintItem", table_name |-> name, column |-> column, conditions |-> conditions]
\* condition_column and condition_value: <<>> for None, <<s>> for the str s
ChangeValueStatement(name, column, old, new, ccol, cval) ==
    [kind |-> "ChangeValue", table_name |-> name, column_name |-> column, old_value |-> old,
     new_value |-> new, condition_column |-> ccol, condition_value |-> cval]

\* the outcome of a statement: no exception, or the ValueError raised
NoErr == [kind |-> "ok", col |-> <<>>]
Err(kind, col) == [kind |-> kind, col |-> col]

\* str(uuid.uuid4()) for the n-th identifier handed out: n stays a single digit
Uuid(n) == <<"-", Digits[n + 1]>>

\* the type check of one supplied value (compiler.py 117-154)
TypeOk(type, value) ==
    LET n == PyInt(value)
    IN  IF type = Str_BOOL THEN n.ok /\ InRange(n, <<>>, <<1>>)
        ELSE IF type = Str_CHAR THEN Len(value) = 1
        ELSE IF type = Str_INT16 THEN n.ok /\ InRange(n, <<3,2,7,6,8>>, <<3,2,7,6,7>>)
        ELSE IF type = Str_INT32
             THEN n.ok /\ InRange(n, <<2,1,4,7,4,8,3,6,4,8>>, <<2,1,4,7,4,8,3,6,4,7>>)
        ELSE IF type = Str_INT64
             THEN n.ok /\ InRange(n, <<9,2,2,3,3,7,2,0,3,6,8,5,4,7,7,5,8,0,8>>,
                                     <<9,2,2,3,3,7,2,0,3,6,8,5,4,7,7,5,8,0,7>>)
        ELSE TRUE

\* sum(1 for row in table['data'] if row.get(column.name) == value)
existing_count(data, name, value) ==
    Cardinality({i \in DOMAIN data : RowGetEq(data[i], name, value)})

\* variants of the constraint check with one threshold moved: UNIC MAIN treated
\* as UNIC alone, UNIC alone rejecting at one row, MAIN alone rejecting at nine
ConstraintErr_UnicMainAsUnic(col, count) ==
    LET is_unic == \E i \in DOMAIN col.constraints : col.constraints[i] = Str_UNIQUE
        is_main == \E i \in DOMAIN col.constraints : col.constraints[i] = Str_PRIMARY
    IN  IF is_unic /\ count >= 2 THEN "Unic"
        ELSE IF is_main /\ ~is_unic /\ count >= 10 THEN "Main"
        ELSE "ok"
ConstraintErr_UnicAtOne(col, count) ==
    LET is_unic == \E i \in DOMAIN col.constraints : col.constraints[i] = Str_UNIQUE
        is_main == \E i \in DOMAIN col.constraints : col.constraints[i] = Str_PRIMARY
    IN  IF is_unic /\ is_main /\ count >= 1 THEN "UnicMain"
        ELSE IF is_unic /\ count >= 1 THEN "Unic"
        ELSE IF is_main /\ count >= 10 THEN "Main"
        ELSE "ok"
ConstraintErr_MainAtNine(col, count) ==
    LET is_unic == \E i \in DOMAIN col.constraints : col.constraints[i] = Str_UNIQUE
        is_main == \E i \in DOMAIN col.constraints : col.constraints[i] = Str_PRIMARY
    IN  IF is_unic /\ is_main /\ count >= 1 THEN "UnicMain"
        ELSE IF is_unic /\ count >= 2 THEN "Unic"
        ELSE IF is_main /\ count >= 9 THEN "Main"
        ELSE "ok"

\* the constraint check of one supplied value (compiler.py 163-171): the error kind
ConstraintErr(col, count) ==
    LET is_unic == \E i \in DOMAIN col.constraints : col.constraints[i] = Str_UNIQUE
        is_main == \E i \in DOMAIN col.constraints : col.constraints[i] = Str_PRIMARY
    IN  IF is_unic /\ is_main /\ count >= 1 THEN "UnicMain"
        ELSE IF is_unic /\ count >= 2 THEN "Unic"
        ELSE IF is_main /\ count >= 10 THEN "Main"
        ELSE "ok"

\* whether the row builder generates the column's value (compiler.py 176)
IsGenerated(col) ==
    /\ IsSubstring(Str_UUID, col.type)
    /\ \E i \in DOMAIN col.constraints : col.constraints[i] = Str_PRIMARY

\* a variant of the row build in which a column without a supplied value gets
\* the empty string
RECURSIVE BuildRow_DefaultingMissing(_, _, _, _, _)
BuildRow_DefaultingMissing(cols, values, i, row, nu) ==
    IF i > Len(cols) THEN [err |-> NoErr, row |-> row, nu |-> nu]
    ELSE IF IsGenerated(cols[i])
         THEN BuildRow_DefaultingMissing(cols, values, i + 1,
                                         RowSet(row, cols[i].name, Uuid(nu)), nu + 1)
    ELSE IF cols[i].name \in DOMAIN values
         THEN BuildRow_DefaultingMissing(cols, values, i + 1,
                                         RowSet(row, cols[i].name, values[cols[i].name]), nu)
    ELSE BuildRow_DefaultingMissing(cols, values, i + 1, RowSet(row, cols[i].name, <<>>), nu)

\* the row insert_data builds (compiler.py 174-181), column by column; nu counts
\* the identifiers handed out: [err, row, nu]
RECURSIVE BuildRow(_, _, _, _, _)
BuildRow(cols, values, i, row, nu) ==
    IF i > Len(cols) THEN [err |-> NoErr, row |-> row, nu |-> nu]
    ELSE IF IsGenerated(cols[i])
         THEN BuildRow(cols, values, i + 1, RowSet(row, cols[i].name, Uuid(nu)), nu + 1)
    ELSE IF cols[i].name \in DOMAIN values
         THEN BuildRow(cols, values, i + 1, RowSet(row, cols[i].name, values[cols[i].name]), nu)
    ELSE [err |-> Err("ValueNotProvided", cols[i].name), row |-> row, nu |-> nu]

\* Compiler.insert_data: [err, tables, nu]
insert_data(tbls, stmt, nu) ==
    IF ~DictHas(tbls, stmt.table_name)
    THEN [err |-> Err("TableNotFound", stmt.table_name), tables |-> tbls, nu |-> nu]
    ELSE
    LET table == DictGet(tbls, stmt.table_name)
        cols == table.columns
        supplied == {i \in DOMAIN cols : cols[i].name \in DOMAIN stmt.values}
        badType == {i \in supplied : ~TypeOk(cols[i].type, stmt.values[cols[i].name])}
        CErr(i) == ConstraintErr(cols[i],
                       existing_count(table.data, cols[i].name, stmt.values[cols[i].name]))
        badCons == {i \in supplied : CErr(i) # "ok"}
        First(S) == CHOOSE i \in S : \A j \in S : i <= j
        built == BuildRow(cols, stmt.values, 1, EmptyRow, nu)
    IN  IF badType # {}
        THEN [err |-> Err("Validation", cols[First(badType)].name), tables |-> tbls, nu |-> nu]
        ELSE IF badCons # {}
        THEN [err |-> Err(CErr(First(badCons)), cols[First(badCons)].name),
              tables |-> tbls, nu |-> nu]
        ELSE IF built.err # NoErr
        THEN [err |-> built.err, tables |-> tbls, nu |-> nu]
        ELSE [err |-> NoErr,
              tables |-> DictSet(tbls, [table EXCEPT !.data = Append(@, built.row)]),
              nu |-> built.nu]

\* a variant of the match in which one condition that holds is enough
Matches_AnyCondition(row, conditions) ==
    \E k \in DOMAIN conditions : RowGetEq(row, k, conditions[k])

\* all(row.get(k) == v for k, v in conditions.items())
Matches(row, conditions) == \A k \in DOMAIN conditions : RowGetEq(row, k, conditions[k])

\* Compiler.delete_data
delete_data(tbls, stmt, nu) ==
    IF ~DictHas(tbls, stmt.table_name)
    THEN [err |-> Err("TableNotFound", stmt.table_name), tables |-> tbls, nu |-> nu]
    ELSE LET table == DictGet(tbls, stmt.table_name)
             kept == SelectSeq(table.data, LAMBDA row : ~Matches(row, stmt.conditions))
         IN  [err |-> NoErr, tables |-> DictSet(tbls, [table EXCEPT !.data = kept]), nu |-> nu]

\* Compiler.remove_table
remove_table(tbls, name, nu) ==
    IF ~DictHas(tbls, name)
    THEN [err |-> Err("TableNotFound", name), tables |-> tbls, nu |-> nu]
    ELSE [err |-> NoErr, tables |-> DictDel(tbls, name), nu |-> nu]

\* Compiler.print_table and Compiler.print_item: output only; they raise when the
\* table does not exist
print_table(tbls, name, nu) ==
    IF ~DictHas(tbls, name)
    THEN [err |-> Err("TableNotFound", name), tables |-> tbls, nu |-> nu]
    ELSE [err |-> NoErr, tables |-> tbls, nu |-> nu]

print_item(tbls, stmt, nu) == print_table(tbls, stmt.table_name, nu)

\* a variant of the CreateTableStatement branch in which a create-if-absent on an
\* existing name replaces the table
create_table_Replacing(tbls, stmt, nu) ==
    IF DictHas(tbls, stmt.table.name) /\ ~stmt.if_not_exists
    THEN [err |-> Err("AlreadyExists", stmt.table.name), tables |-> tbls, nu |-> nu]
    ELSE [err |-> NoErr,
          tables |-> DictSet(tbls, [name |-> stmt.table.name, columns |-> stmt.table.columns,
                                    data |-> <<>>]),
          nu |-> nu]

\* the CreateTableStatement branch of compile (compiler.py 81-89)
create_table(tbls, stmt, nu) ==
    IF DictHas(tbls, stmt.table.name)
    THEN IF ~stmt.if_not_exists
         THEN [err |-> Err("AlreadyExists", stmt.table.name), tables |-> tbls, nu |-> nu]
         ELSE [err |-> NoErr, tables |-> tbls, nu |-> nu]
    ELSE [err |-> NoErr,
          tables |-> DictSet(tbls, [name |-> stmt.table.name, columns |-> stmt.table.columns,
                                    data |-> <<>>]),
          nu |-> nu]

\* one turn of compile's statement loop (compiler.py 80-101): the isinstance chain.
\* A ChangeValueStatement matches no branch: nothing happens and nothing is raised.
ApplyStmt(tbls, stmt, nu) ==
    IF stmt.kind = "CreateTable" THEN create_table(tbls, stmt, nu)
    ELSE IF stmt.kind = "Insert" THEN insert_data(tbls, stmt, nu)
    ELSE IF stmt.kind = "Delete" THEN delete_data(tbls, stmt, nu)
    ELSE IF stmt.kind = "DeleteTable" THEN remove_table(tbls, stmt.table_name, nu)
    ELSE IF stmt.kind = "PrintTable" THEN print_table(tbls, stmt.table_name, nu)
    ELSE IF stmt.kind = "PrintItem" THEN print_item(tbls, stmt, nu)
    ELSE IF stmt.kind = "RemoveTable" THEN remove_table(tbls, stmt.table_name, nu)
    ELSE [err |-> NoErr, tables |-> tbls, nu |-> nu]

----------------------------------------------------------------------------
(* tokenizer.py: Tokenizer *)

IsAlpha(c) == c \in Range(Upper) \cup Range(Lower) \cup {"e_acute"}     \* str.isalpha
IsAlnum(c) == IsAlpha(c) \/ c \in Range(Digits)                         \* str.isalnum
IsLowerCased(c) == c \in Range(Lower) \cup {"e_acute"}

\* str.isupper(): some cased character, and no lower-case one
IsUpperStr(text) ==
    /\ \E i \in DOMAIN text : text[i] \in Range(Upper)
    /\ \A i \in DOMAIN text : ~IsLowerCased(text[i])

\* the keywords dict of Tokenizer.identifier (tokenizer.py 110-130): the token
\* type is named by the keyword itself
keywords ==
    {<<"N","E","W">>, <<"T","A","B","L","E">>, <<"I","F">>, <<"E","X","I","S","T","S">>,
     <<"I","S">>, <<"F","A","L","S","E">>, <<"T","R","U","E">>, <<"U","N","I","C">>,
     <<"M","A","I","N">>, Str_UUID, Str_STR, Str_PASSWORD, <<"A","D","D">>,
     <<"I","T","E","M">>, <<"T","O">>, <<"P","R","I","N","T">>,
     <<"D","E","L","E","T","E">>, <<"F","R","O","M">>, <<"W","H","E","R","E">>}

\* TokenType members that are not keywords; TT_None is the None that
\* keywords.get(text) returns for an upper-case text that is no key
TT_IDENTIFIER == <<"I","D","E","N","T","I","F","I","E","R">>
TT_STRING == <<"S","T","R","I","N","G">>
TT_EOF == <<"E","O","F">>
TT_None == <<"N","o","n","e">>
symbols == {"{", "}", ",", ";", "="}

Token(type, value, line, column) ==
    [type |-> type, value |-> value, line |-> line, column |-> column]

\* the Tokenizer's fields while scanning: current is the 0-based index of the
\* next character; ok = FALSE once SyntaxError is raised
TokenizerInit == [ok |-> TRUE, current |-> 0, line |-> 1, column |-> 1, tokens |-> <<>>]

\* the index (1-based) of the first character at or after i that ends an
\* identifier, Len(src) + 1 if none: the while loop of identifier()
IdentifierEnd(src, i) ==
    LET stops == {j \in i..Len(src) : ~(IsAlnum(src[j]) \/ src[j] = "_")}
    IN  IF stops = {} THEN Len(src) + 1 ELSE CHOOSE j \in stops : \A k \in stops : j <= k

\* the index of the closing quote at or after i, 0 if none: the while loop of string()
StringEnd(src, i) ==
    LET quotes == {j \in i..Len(src) : src[j] = "\""}
    IN  IF quotes = {} THEN 0 ELSE CHOOSE j \in quotes : \A k \in quotes : j <= k

\* Tokenizer.identifier (tokenizer.py 103-135), for the text src[start+1..stop-1]
IdentifierType(text) ==
    IF IsUpperStr(text) THEN (IF text \in keywords THEN text ELSE TT_None) ELSE TT_IDENTIFIER
IdentifierToken(t, text) ==
    [t EXCEPT !.current = t.current + Len(text),
              !.column = t.column + Len(text),
              !.tokens = Append(t.tokens, Token(IdentifierType(text), text, t.line, t.column))]
identifier(src, t) == IdentifierToken(t, SubSeq(src, t.current + 1, IdentifierEnd(src, t.current + 2) - 1))

\* Tokenizer.string (tokenizer.py 137-152): newlines inside the literal are counted
NewlinesIn(text) == Cardinality({i \in DOMAIN text : text[i] = "\n"})
StringToken(t, value) ==
    [t EXCEPT !.current = t.current + Len(value) + 2,
              !.line = t.line + NewlinesIn(value),
              !.column = t.column + Len(value) + 2,
              !.tokens = Append(t.tokens,
                                Token(TT_STRING, value, t.line + NewlinesIn(value), t.column))]
StringUpTo(src, t, close) ==
    IF close = 0 THEN [t EXCEPT !.ok = FALSE]
    ELSE StringToken(t, SubSeq(src, t.current + 2, close - 1))
string(src, t) == StringUpTo(src, t, StringEnd(src, t.current + 2))

\* Tokenizer.scan_token (tokenizer.py 68-101) on the character c at t.current
ScanChar(src, t, c) ==
    IF IsSpace(c)
    THEN IF c = "\n"
         THEN [t EXCEPT !.current = t.current + 1, !.line = t.line + 1, !.column = 1]
         ELSE [t EXCEPT !.current = t.current + 1, !.column = t.column + 1]
    ELSE IF IsAlpha(c) THEN identifier(src, t)
    ELSE IF c = "\"" THEN string(src, t)
    ELSE IF c \in symbols
    THEN [t EXCEPT !.current = t.current + 1, !.column = t.column + 1,
                   !.tokens = Append(t.tokens, Token(<<c>>, <<c>>, t.line, t.column))]
    ELSE [t EXCEPT !.ok = FALSE]
scan_token(src, t) == ScanChar(src, t, src[t.current + 1])

\* Tokenizer.tokenize (tokenizer.py 61-66): [ok, tokens]
RECURSIVE ScanAll(_, _)
ScanAll(src, t) ==
    IF ~t.ok THEN [ok |-> FALSE, tokens |-> <<>>]
    ELSE IF t.current >= Len(src)
    THEN [ok |-> TRUE, tokens |-> Append(t.tokens, Token(TT_EOF, <<>>, t.line, t.column))]
    ELSE ScanAll(src, scan_token(src, t))
tokenize(src) == ScanAll(src, TokenizerInit)

----------------------------------------------------------------------------
(* parser.py: Parser *)

KW_NEW == <<"N","E","W">>
KW_TABLE == <<"T","A","B","L","E">>
KW_IF == <<"I","F">>
KW_EXISTS == <<"E","X","I","S","T","S">>
KW_IS == <<"I","S">>
KW_FALSE == <<"F","A","L","S","E">>
KW_TRUE == <<"T","R","U","E">>
KW_UNIC == <<"U","N","I","C">>
KW_MAIN == <<"M","A","I","N">>
KW_ADD == <<"A","D","D">>
KW_ITEM == <<"I","T","E","M">>
KW_TO == <<"T","O">>
KW_PRINT == <<"P","R","I","N","T">>
KW_DELETE == <<"D","E","L","E","T","E">>
KW_FROM == <<"F","R","O","M">>
KW_WHERE == <<"W","H","E","R","E">>
KW_REMOVE == <<"R","E","M","O","V","E">>

valid_types == {Str_UUID, Str_STR, Str_PASSWORD, Str_INT16, Str_INT32, Str_INT64, Str_CHAR, Str_BOOL}

\* The Parser while parsing: current is the 0-based index into tokens; val is
\* the value produced last; ok = FALSE once an exception is raised, err names it
ParserInit == [ok |-> TRUE, current |-> 0, val |-> <<>>, err |-> "none"]
Raise(p, e) == IF p.ok THEN [ok |-> FALSE, current |-> p.current, val |-> <<>>, err |-> e] ELSE p
SetVal(p, v) == IF p.ok THEN [p EXCEPT !.val = v] ELSE p

peek(tokens, p) == tokens[p.current + 1]
is_at_end(tokens, p) == peek(tokens, p).type = TT_EOF
check(tokens, p, type) == p.ok /\ ~is_at_end(tokens, p) /\ peek(tokens, p).type = type
\* tokens[self.current - 1]: index -1 is the last token
previous(tokens, p) == tokens[IF p.current = 0 THEN Len(tokens) ELSE p.current]

\* Parser.advance: val becomes the value of the token returned
Advanced(tokens, q) == SetVal(q, previous(tokens, q).value)
advance(tokens, p) ==
    IF ~p.ok THEN p
    ELSE IF is_at_end(tokens, p) THEN Advanced(tokens, p)
    ELSE Advanced(tokens, [p EXCEPT !.current = p.current + 1])

\* Parser.consume: SyntaxError unless the next token has the type
consume(tokens, p, type) ==
    IF check(tokens, p, type) THEN advance(tokens, p) ELSE Raise(p, "SyntaxError")

\* consume, keeping the value p had
consumeKeep(tokens, p, type) == SetVal(consume(tokens, p, type), p.val)

\* `if not self.check(RIGHT_BRACE): self.consume(COMMA, ...)`, keeping the value
CommaUnlessBrace(tokens, p) ==
    IF ~p.ok \/ check(tokens, p, <<"}">>) THEN p ELSE consumeKeep(tokens, p, <<",">>)

\* Parser._get_column_types (parser.py 318-323): it searches self.tokens for a
\* CreateTableStatement; the list holds Tokens only, so the result is always {}
_get_column_types(tokens) == EmptyRow

\* one `name = "value"` of ADD ITEM or DELETE ITEM: val = <<name, value>>; ADD
\* ITEM validates the value against the column types (parser.py 147-188)
PairMake(n, v) == IF v.ok THEN SetVal(v, <<n.val, v.val>>) ELSE v
PairValue(tokens, n) == PairMake(n, consume(tokens, consumeKeep(tokens, n, <<"=">>), TT_STRING))
PairValidated(tokens, q, validate) ==
    IF q.ok /\ validate /\ q.val[1] \in DOMAIN _get_column_types(tokens)
       /\ ~TypeOk(_get_column_types(tokens)[q.val[1]], q.val[2])
    THEN Raise(q, "ValueError")
    ELSE q
Pair(tokens, p, validate) ==
    PairValidated(tokens, PairValue(tokens, consume(tokens, p, TT_IDENTIFIER)), validate)

\* the loop `while not self.check(RIGHT_BRACE)` over pairs: val = the dict
RECURSIVE Pairs(_, _, _, _)
PairsStep(tokens, q, dict, validate) ==
    IF ~q.ok THEN q
    ELSE Pairs(tokens, CommaUnlessBrace(tokens, q), RowSet(dict, q.val[1], q.val[2]), validate)
Pairs(tokens, p, dict, validate) ==
    IF ~p.ok THEN p
    ELSE IF check(tokens, p, <<"}">>) THEN SetVal(p, dict)
    ELSE PairsStep(tokens, Pair(tokens, p, validate), dict, validate)

\* `{ pairs }`: val = the dict
BracedPairs(tokens, p, validate) ==
    consumeKeep(tokens, Pairs(tokens, consume(tokens, p, <<"{">>), EmptyRow, validate), <<"}">>)

\* `<name> ;` after a dict or a column name in val: val = <<that value, name>>
TableNameEnd(tokens, p) == consumeKeep(tokens, PairMake(p, consume(tokens, p, TT_IDENTIFIER)), <<";">>)

\* one column declaration of NEW TABLE (parser.py 112-125): val = the Column
ColumnUnic(tokens, p) ==
    IF check(tokens, p, KW_UNIC) THEN SetVal(advance(tokens, p), <<Str_UNIQUE>>) ELSE SetVal(p, <<>>)
ColumnMain(tokens, u) ==
    IF check(tokens, u, KW_MAIN) THEN SetVal(advance(tokens, u), Append(u.val, Str_PRIMARY)) ELSE u
ColumnTypeOf(m, a) ==
    IF ~a.ok THEN a
    ELSE IF a.val \in valid_types THEN SetVal(a, <<m.val, a.val>>)
    ELSE Raise(a, "SyntaxError")
ColumnType(tokens, m) == ColumnTypeOf(m, advance(tokens, m))
ColumnNameOf(t, n) == IF n.ok THEN SetVal(n, Column(n.val, t.val[2], t.val[1])) ELSE n
ColumnName(tokens, t) == ColumnNameOf(t, consume(tokens, t, TT_IDENTIFIER))
ColumnDecl(tokens, p) == ColumnName(tokens, ColumnType(tokens, ColumnMain(tokens, ColumnUnic(tokens, p))))

\* the loop over column declarations (parser.py 110-128): val = the columns
RECURSIVE ColumnDecls(_, _, _)
ColumnDeclsStep(tokens, q, cols) ==
    IF ~q.ok THEN q ELSE ColumnDecls(tokens, CommaUnlessBrace(tokens, q), Append(cols, q.val))
ColumnDecls(tokens, p, cols) ==
    IF ~p.ok THEN p
    ELSE IF check(tokens, p, <<"}">>) THEN SetVal(p, cols)
    ELSE ColumnDeclsStep(tokens, ColumnDecl(tokens, p), cols)

\* `[IF EXISTS IS {TRUE|FALSE}]` (parser.py 97-106): val = if_not_exists
IfExistsValue(tokens, p) ==
    IF check(tokens, p, KW_FALSE) THEN SetVal(advance(tokens, p), TRUE)
    ELSE IF check(tokens, p, KW_TRUE) THEN SetVal(advance(tokens, p), FALSE)
    ELSE Raise(p, "SyntaxError")
IfExists(tokens, p) ==
    IF check(tokens, p, KW_IF)
    THEN IfExistsValue(tokens, consume(tokens, consume(tokens, advance(tokens, p), KW_EXISTS), KW_IS))
    ELSE SetVal(p, FALSE)

\* Parser.create_table_statement (parser.py 94-134)
CreateTableMake(f, c) ==
    IF c.ok THEN SetVal(c, CreateTableStatement(c.val[2], c.val[1], f.val)) ELSE c
CreateTableBody(tokens, f) ==
    CreateTableMake(f,
        TableNameEnd(tokens,
            consumeKeep(tokens, ColumnDecls(tokens, consume(tokens, f, <<"{">>), <<>>), <<"}">>)))
create_table_statement(tokens, p) == CreateTableBody(tokens, IfExists(tokens, consume(tokens, p, KW_TABLE)))

\* Parser.insert_statement (parser.py 136-201)
InsertMake(p) == IF p.ok THEN SetVal(p, InsertStatement(p.val[2], p.val[1])) ELSE p
insert_statement(tokens, p) ==
    InsertMake(TableNameEnd(tokens,
        consumeKeep(tokens,
            consumeKeep(tokens, BracedPairs(tokens, consume(tokens, p, KW_ITEM), TRUE), KW_TO),
            KW_TABLE)))

\* Parser.delete_statement (parser.py 210-231)
DeleteMake(p) == IF p.ok THEN SetVal(p, DeleteStatement(p.val[2], p.val[1])) ELSE p
delete_statement(tokens, p) ==
    DeleteMake(TableNameEnd(tokens,
        consumeKeep(tokens,
            consumeKeep(tokens, BracedPairs(tokens, consume(tokens, p, KW_ITEM), FALSE), KW_FROM),
            KW_TABLE)))

\* `TABLE <name> ;`: val = the name
TableClause(tokens, p) == consumeKeep(tokens, consume(tokens, consume(tokens, p, KW_TABLE), TT_IDENTIFIER), <<";">>)

\* Parser.print_statement, remove_table_statement, delete_table_statement
print_statement(tokens, p) == SetVal(TableClause(tokens, p), PrintTableStatement(TableClause(tokens, p).val))
remove_table_statement(tokens, p) == SetVal(TableClause(tokens, p), RemoveTableStatement(TableClause(tokens, p).val))
delete_table_statement(tokens, p) == SetVal(TableClause(tokens, p), DeleteTableStatement(TableClause(tokens, p).val))

\* Parser.print_item_statement (parser.py 233-249)
PrintItemCondition(c, q) == IF q.ok THEN SetVal(q, <<c.val, Dict1(q.val[1], q.val[2])>>) ELSE q
PrintItemWhere(tokens, c) ==
    PrintItemCondition(c, Pair(tokens, consumeKeep(tokens, c, KW_WHERE), FALSE))
PrintItemMake(p) == IF p.ok THEN SetVal(p, PrintItemStatement(p.val[2], p.val[1][1], p.val[1][2])) ELSE p
print_item_statement(tokens, p) ==
    PrintItemMake(TableNameEnd(tokens,
        consumeKeep(tokens,
            consumeKeep(tokens,
                PrintItemWhere(tokens, consume(tokens, advance(tokens, p), TT_IDENTIFIER)),
                KW_FROM),
            KW_TABLE)))

\* one turn of the loop of Parser.parse (parser.py 71-90): the match chain. No
\* token has the type TokenType.REMOVE, which the tokenizer never produces; and
\* the CHANGE branch evaluates TokenType.CHANGE, which is no member of the enum,
\* so every statement the earlier branches do not take raises AttributeError
\* (change_value_statement, parser.py 263-285, is never entered).
statement(tokens, p) ==
    IF check(tokens, p, KW_NEW) THEN create_table_statement(tokens, advance(tokens, p))
    ELSE IF check(tokens, p, KW_ADD) THEN insert_statement(tokens, advance(tokens, p))
    ELSE IF check(tokens, p, KW_DELETE)
         THEN IF check(tokens, advance(tokens, p), KW_TABLE)
              THEN delete_table_statement(tokens, advance(tokens, p))
              ELSE delete_statement(tokens, advance(tokens, p))
    ELSE IF check(tokens, p, KW_REMOVE) THEN remove_table_statement(tokens, advance(tokens, p))
    ELSE IF check(tokens, p, KW_PRINT)
         THEN IF check(tokens, advance(tokens, p), KW_ITEM)
              THEN print_item_statement(tokens, advance(tokens, p))
              ELSE print_statement(tokens, advance(tokens, p))
    ELSE Raise(p, "AttributeError")

\* Parser.parse (parser.py 67-92): [ok, statements, err]
RECURSIVE ParseAll(_, _, _)
ParseAllStep(tokens, q, stmts) == ParseAll(tokens, q, IF q.ok THEN Append(stmts, q.val) ELSE stmts)
ParseAll(tokens, p, stmts) ==
    IF ~p.ok THEN [ok |-> FALSE, statements |-> <<>>, err |-> p.err]
    ELSE IF is_at_end(tokens, p) THEN [ok |-> TRUE, statements |-> stmts, err |-> "none"]
    ELSE ParseAllStep(tokens, statement(tokens, p), stmts)
parse(tokens) == ParseAll(tokens, ParserInit, <<>>)

\* Tokenizer(source).tokenize() then Parser(tokens).parse(): [ok, statements, err]
ParseTokens(t) ==
    IF t.ok THEN parse(t.tokens) ELSE [ok |-> FALSE, statements |-> <<>>, err |-> "SyntaxError"]
ParseSource(src) == ParseTokens(tokenize(src))

----------------------------------------------------------------------------
(* The inputs of the model: names, values, schemas and statements *)

N_t == <<"t">>
N_u == <<"u">>
C_id == <<"i", "d">>
C_k == <<"k">>
C_n == <<"n">>
V_x == <<"x">>
V_y == <<"y">>

\* NEW TABLE { UNIC MAIN UUID id, STR n } t;
SchUuid == <<Column(C_id, Str_UUID, <<Str_UNIQUE, Str_PRIMARY>>), Column(C_n, Str_STR, <<>>)>>
\* NEW TABLE { UNIC MAIN STR k } t;
SchUnicMain == <<Column(C_k, Str_STR, <<Str_UNIQUE, Str_PRIMARY>>)>>
\* NEW TABLE { UNIC STR k } t;
SchUnic == <<Column(C_k, Str_STR, <<Str_UNIQUE>>)>>
\* NEW TABLE { MAIN STR k } t;
SchMain == <<Column(C_k, Str_STR, <<Str_PRIMARY>>)>>

Schemas == {SchUuid, SchUnicMain, SchUnic}

CreateStatements ==
    {CreateTableStatement(N_t, sch, ine) : sch \in Schemas, ine \in BOOLEAN}

InsertStatements ==
    {InsertStatement(N_t, v) :
        v \in {Dict1(C_k, V_x), Dict1(C_k, V_y), Dict1(C_n, V_x), EmptyRow,
               Dict2(C_id, V_y, C_n, V_x), Dict2(C_id, Uuid(0), C_n, V_x),
               Dict1(C_id, Uuid(0))}}
    \cup {InsertStatement(N_u, Dict1(C_k, V_x))}

OtherStatements ==
    {DeleteStatement(N_t, Dict1(C_k, V_x)), DeleteStatement(N_t, Dict1(C_n, V_x)),
     DeleteStatement(N_u, Dict1(C_k, V_x)),
     DeleteTableStatement(N_t), RemoveTableStatement(N_t),
     PrintTableStatement(N_t), PrintItemStatement(N_t, C_k, Dict1(C_k, V_x)),
     ChangeValueStatement(N_t, C_k, V_x, V_y, <<>>, <<>>),
     ChangeValueStatement(N_t, C_n, V_x, V_y, <<C_n>>, <<V_x>>)}

Statements == CreateStatements \cup InsertStatements \cup OtherStatements

----------------------------------------------------------------------------
(* compile(statements, output_file), one step at a time *)

NoLast == [stmt |-> [kind |-> "none"], before |-> <<>>, err |-> NoErr]
NoCall == [kind |-> "none", src |-> <<>>, err |-> "none", nu |-> 0, file |-> NoFile, depth |-> 0,
           tokens |-> <<>>]
NoOther == [pc |-> "idle", loaded |-> <<>>, tables |-> <<>>, stmts |-> <<>>,
            overwrote |-> NoFile, written |-> NoFile]
NoShell == [multiline_buffer |-> <<>>, in_multiline |-> FALSE]

Init ==
    /\ tables = <<>>
    /\ file = NoFile
    /\ pc = "idle"
    /\ mode = "fresh"
    /\ steps = 0
    /\ loaded = [ok |-> TRUE, tables |-> <<>>]
    /\ last = NoLast
    /\ nextUuid = 0
    /\ batch = <<>>
    /\ call = NoCall
    /\ other = NoOther
    /\ shell = NoShell

\* the store a call starts from: a new Compiler() (main.py 42), or the facade's
\* one Compiler, which keeps its tables between calls (__init__.py 49)
StartTables == IF mode = "fresh" THEN <<>> ELSE tables

\* compile() up to its statement loop: the load, whose exception is only printed
\* (compiler.py 74-77)
LoadExisting(r) ==
    /\ tables' = r.tables
    /\ loaded' = [ok |-> r.ok, tables |-> r.tables]
    /\ steps' = 0
    /\ last' = NoLast
    /\ UNCHANGED <<file, mode, nextUuid, other>>

\* compile(statements, file) called with statements the caller built; they are
\* chosen one by one as the loop reaches them
BeginFree ==
    /\ pc = "idle"
    /\ LoadExisting(load_existing_data(file, StartTables))
    /\ pc' = "run"
    /\ batch' = <<>>
    /\ call' = [kind |-> "free", src |-> <<>>, err |-> "none", nu |-> nextUuid,
                  file |-> file, depth |-> 0, tokens |-> <<>>]
    /\ UNCHANGED shell

\* compile(statements, file) called with the list b
BeginBatch(b) ==
    /\ pc = "idle"
    /\ LoadExisting(load_existing_data(file, StartTables))
    /\ pc' = "runq"
    /\ batch' = b
    /\ call' = [kind |-> "statements", src |-> <<>>, err |-> "none", nu |-> nextUuid,
                  file |-> file, depth |-> 0, tokens |-> <<>>]
    /\ UNCHANGED shell

\* DitabaseShell.execute_command(src) (main.py 36-45) and execute_file
\* (__init__.py 45-49): tokenize, parse, then compile; an exception of the
\* tokenizer or the parser ends the call before compile() is entered
SourceParsed(src, p) ==
    IF p.ok
    THEN /\ LoadExisting(load_existing_data(file, StartTables))
         /\ pc' = "runq"
         /\ batch' = p.statements
         /\ call' = [kind |-> "source", src |-> src, err |-> "none", nu |-> nextUuid,
                  file |-> file, depth |-> 0, tokens |-> <<>>]
    ELSE /\ call' = [kind |-> "source", src |-> src, err |-> p.err, nu |-> nextUuid,
                  file |-> file, depth |-> 0, tokens |-> <<>>]
         /\ batch' = <<>>
         /\ last' = NoLast
         /\ UNCHANGED <<tables, file, pc, mode, steps, loaded, nextUuid, other>>
BeginSource(src) ==
    /\ pc = "idle"
    /\ SourceParsed(src, ParseSource(src))
    /\ UNCHANGED shell

\* a variant of the loop's turn in which an exception saves the store as it is
Applied_SavingOnFailure(stmt, r, maxRows) ==
    /\ r.nu <= MaxUuid
    /\ \A i \in DOMAIN r.tables : Len(r.tables[i].data) <= maxRows
    /\ tables' = r.tables
    /\ nextUuid' = r.nu
    /\ last' = [stmt |-> stmt, before |-> tables, err |-> r.err]
    /\ pc' = IF r.err = NoErr THEN pc ELSE "idle"
    /\ steps' = IF r.err = NoErr THEN steps + 1 ELSE steps
    /\ file' = IF r.err = NoErr THEN file ELSE FileOf(save_to_file(tables))
    /\ UNCHANGED <<mode, loaded, batch, call, other, shell>>

\* a variant of the loop's turn in which an exception restores the loaded store
Applied_RollingBack(stmt, r, maxRows) ==
    /\ r.nu <= MaxUuid
    /\ \A i \in DOMAIN r.tables : Len(r.tables[i].data) <= maxRows
    /\ tables' = IF r.err = NoErr THEN r.tables ELSE loaded.tables
    /\ nextUuid' = r.nu
    /\ last' = [stmt |-> stmt, before |-> tables, err |-> r.err]
    /\ pc' = IF r.err = NoErr THEN pc ELSE "idle"
    /\ steps' = IF r.err = NoErr THEN steps + 1 ELSE steps
    /\ UNCHANGED <<file, mode, loaded, batch, call, other, shell>>

\* one turn of the statement loop; an exception leaves compile() before the save
Applied(stmt, r, maxRows) ==
    /\ r.nu <= MaxUuid
    /\ \A i \in DOMAIN r.tables : Len(r.tables[i].data) <= maxRows
    /\ tables' = r.tables
    /\ nextUuid' = r.nu
    /\ last' = [stmt |-> stmt, before |-> tables, err |-> r.err]
    /\ pc' = IF r.err = NoErr THEN pc ELSE "idle"
    /\ steps' = IF r.err = NoErr THEN steps + 1 ELSE steps
    /\ UNCHANGED <<file, mode, loaded, batch, call, other, shell>>

Step(stmt) ==
    /\ pc = "run"
    /\ steps < MaxBatch
    /\ Applied(stmt, ApplyStmt(tables, stmt, nextUuid), MaxRows)

StepMain(stmt) ==
    /\ pc = "run"
    /\ steps < MaxBatch
    /\ Applied(stmt, ApplyStmt(tables, stmt, nextUuid), MaxRowsMain)

StepCrash(stmt) ==
    /\ pc = "run"
    /\ steps < MaxBatch
    /\ Applied(stmt, ApplyStmt(tables, stmt, nextUuid), MaxCrashRows)

StepQueued ==
    /\ pc = "runq"
    /\ steps < Len(batch)
    /\ Applied(batch[steps + 1], ApplyStmt(tables, batch[steps + 1], nextUuid), MaxRows)

\* a variant of the end of the loop that writes only a store the call changed
Finish_SkippingUnchanged ==
    /\ \/ pc = "run"
       \/ pc = "runq" /\ steps = Len(batch)
    /\ file' = IF tables = loaded.tables THEN file ELSE FileOf(save_to_file(tables))
    /\ pc' = "idle"
    /\ UNCHANGED <<tables, mode, steps, loaded, last, nextUuid, batch, call, other, shell>>

\* the end of the statement loop: save_to_file (compiler.py 104)
Finish ==
    /\ \/ pc = "run"
       \/ pc = "runq" /\ steps = Len(batch)
    /\ file' = FileOf(save_to_file(tables))
    /\ pc' = "idle"
    /\ UNCHANGED <<tables, mode, steps, loaded, last, nextUuid, batch, call, other, shell>>

\* the shell and the library called with statements of the caller's choice
Next ==
    \/ BeginFree
    \/ \E stmt \in Statements : Step(stmt)
    \/ Finish

Spec == Init /\ [][Next]_vars

----------------------------------------------------------------------------
(* Properties of insert_data, checked under Spec *)

\* how many rows of data hold v under the column name c, counted from the rows
HoldCount(data, c, v) ==
    Cardinality({i \in DOMAIN data : c \in DOMAIN data[i] /\ data[i][c] = v})

Has(col, constraint) == \E i \in DOMAIN col.constraints : col.constraints[i] = constraint

\* the last statement was an Insert into a table that existed
InsertedInto == last.stmt.kind = "Insert" /\ DictHas(last.before, last.stmt.table_name)
TableBefore == DictGet(last.before, last.stmt.table_name)
TableAfter == DictGet(tables, last.stmt.table_name)

\* column i is declared under a name of its own, the Insert supplies it, no column
\* before it is supplied, and every supplied value passes the type validation
FirstSupplied(cols, i, values) ==
    /\ cols[i].name \in DOMAIN values
    /\ \A j \in DOMAIN cols : j # i => cols[j].name # cols[i].name
    /\ \A j \in 1..(i - 1) : cols[j].name \notin DOMAIN values
    /\ \A j \in DOMAIN cols :
          cols[j].name \in DOMAIN values => TypeOk(cols[j].type, values[cols[j].name])

\* C2: for a column declared UNIC MAIN, an Insert supplying v is rejected with
\* the UNIC MAIN violation exactly when at least one row of the table already
\* holds v in that column; the rejected Insert leaves the store as it was, and an
\* Insert that raises nothing appends one row (so the first insert of v into a
\* fresh table succeeds and the second fails).
C2_UnicMainRejectsHeldValue ==
    InsertedInto =>
        \A i \in DOMAIN TableBefore.columns :
            LET col == TableBefore.columns[i]
                held == HoldCount(TableBefore.data, col.name, last.stmt.values[col.name])
            IN  (/\ Has(col, Str_UNIQUE) /\ Has(col, Str_PRIMARY)
                 /\ FirstSupplied(TableBefore.columns, i, last.stmt.values))
                => /\ (last.err = Err("UnicMain", col.name)) <=> (held >= 1)
                   /\ last.err.kind \notin {"Unic", "Main", "Validation"}
                   /\ last.err # NoErr => tables = last.before
                   /\ last.err = NoErr => Len(TableAfter.data) = Len(TableBefore.data) + 1

\* the second insert of x into a UNIC MAIN column that holds x once is rejected
C2_SecondInsertRejected ==
    /\ InsertedInto
    /\ TableBefore.columns = SchUnicMain
    /\ last.stmt.values = Dict1(C_k, V_x)
    /\ HoldCount(TableBefore.data, C_k, V_x) = 1
    /\ last.err = Err("UnicMain", C_k)

\* C3: for a column declared UNIC only, an Insert supplying v is rejected with
\* the UNIC violation exactly when at least two rows of the table already hold v
\* in that column (two inserts of a value succeed, the third fails), and no
\* table of the store ever holds a value more than twice in such a column.
C3_UnicRejectsAtTwo ==
    /\ InsertedInto =>
          \A i \in DOMAIN TableBefore.columns :
              LET col == TableBefore.columns[i]
                  held == HoldCount(TableBefore.data, col.name, last.stmt.values[col.name])
              IN  (/\ Has(col, Str_UNIQUE) /\ ~Has(col, Str_PRIMARY)
                   /\ FirstSupplied(TableBefore.columns, i, last.stmt.values))
                  => /\ (last.err = Err("Unic", col.name)) <=> (held >= 2)
                     /\ last.err.kind \notin {"UnicMain", "Main", "Validation"}
                     /\ last.err # NoErr => tables = last.before
                     /\ last.err = NoErr =>
                           TableAfter.data = Append(TableBefore.data, last.stmt.values)
    /\ \A t \in DOMAIN tables : \A i \in DOMAIN tables[t].columns :
          LET col == tables[t].columns[i]
          IN  (/\ Has(col, Str_UNIQUE) /\ ~Has(col, Str_PRIMARY)
               /\ \A j \in DOMAIN tables[t].columns :
                     j # i => tables[t].columns[j].name # col.name)
              => \A r \in DOMAIN tables[t].data :
                    HoldCount(tables[t].data, col.name, tables[t].data[r][col.name]) <= 2

\* the third insert of x into a UNIC column that holds x twice is rejected
C3_ThirdInsertRejected ==
    /\ InsertedInto
    /\ TableBefore.columns = SchUnic
    /\ last.stmt.values = Dict1(C_k, V_x)
    /\ HoldCount(TableBefore.data, C_k, V_x) = 2
    /\ last.err = Err("Unic", C_k)

\* C5: for a column of type UUID with PRIMARY, an Insert that supplies a value
\* for the column is admitted exactly as the same Insert without that value.
C5_SuppliedUuidIgnored ==
    InsertedInto =>
        \A i \in DOMAIN TableBefore.columns :
            LET col == TableBefore.columns[i]
                values == last.stmt.values
                without == [k \in (DOMAIN values) \ {col.name} |-> values[k]]
            IN  (/\ IsSubstring(Str_UUID, col.type) /\ Has(col, Str_PRIMARY)
                 /\ FirstSupplied(TableBefore.columns, i, values))
                => last.err = insert_data(last.before, InsertStatement(last.stmt.table_name, without),
                                          call.nu).err

\* C7: a ChangeValue statement on an existing table raises nothing and rewrites
\* the target column to new_value in the rows that hold old_value there and
\* meet the WHERE condition, leaving every other row and column as it was.
ChangeValueRewritten(row, stmt) ==
    IF /\ stmt.column_name \in DOMAIN row
       /\ row[stmt.column_name] = stmt.old_value
       /\ \/ stmt.condition_column = <<>>
          \/ RowGetEq(row, stmt.condition_column[1], stmt.condition_value[1])
    THEN [row EXCEPT ![stmt.column_name] = stmt.new_value]
    ELSE row
C7_ChangeValueRewritesRows ==
    (last.stmt.kind = "ChangeValue" /\ DictHas(last.before, last.stmt.table_name)) =>
        /\ last.err = NoErr
        /\ TableAfter.columns = TableBefore.columns
        /\ TableAfter.data =
              [r \in DOMAIN TableBefore.data |-> ChangeValueRewritten(TableBefore.data[r], last.stmt)]

----------------------------------------------------------------------------
(* Whole batches and source texts: SpecBatch *)

\* words separated by one blank, and a string literal
RECURSIVE Join(_)
Join(words) ==
    IF Len(words) = 0 THEN <<>>
    ELSE IF Len(words) = 1 THEN words[1]
    ELSE words[1] \o <<" ">> \o Join(Tail(words))
Quote(v) == <<"\"">> \o v \o <<"\"">>

\* NEW TABLE { STR n } t, as the two IF EXISTS forms below declare it
SchN == <<Column(C_n, Str_STR, <<>>)>>

\* NEW TABLE { UNIC STR k } t;
SrcCreate ==
    Join(<<KW_NEW, KW_TABLE, <<"{">>, KW_UNIC, Str_STR, C_k, <<"}">>, N_t>>) \o <<";">>
\* NEW TABLE IF EXISTS IS TRUE { STR n } t;
SrcCreateStrict ==
    Join(<<KW_NEW, KW_TABLE, KW_IF, KW_EXISTS, KW_IS, KW_TRUE,
           <<"{">>, Str_STR, C_n, <<"}">>, N_t>>) \o <<";">>
\* NEW TABLE IF EXISTS IS FALSE { STR n } t;
SrcCreateIfAbsent ==
    Join(<<KW_NEW, KW_TABLE, KW_IF, KW_EXISTS, KW_IS, KW_FALSE,
           <<"{">>, Str_STR, C_n, <<"}">>, N_t>>) \o <<";">>
\* ADD ITEM { k = "x" } TO TABLE t;
SrcInsert ==
    Join(<<KW_ADD, KW_ITEM, <<"{">>, C_k, <<"=">>, Quote(V_x), <<"}">>,
           KW_TO, KW_TABLE, N_t>>) \o <<";">>
\* DELETE TABLE t;   and   REMOVE TABLE t;
SrcDeleteT == Join(<<KW_DELETE, KW_TABLE, N_t>>) \o <<";">>
SrcRemoveT == Join(<<KW_REMOVE, KW_TABLE, N_t>>) \o <<";">>
\* a script of three statements, one per line
SrcScript == SrcCreate \o <<"\n">> \o SrcInsert \o <<"\n">> \o SrcInsert
\* NEW TABLE { STR k , STR k } t;
SrcCreateDup ==
    Join(<<KW_NEW, KW_TABLE, <<"{">>, Str_STR, C_k, <<",">>, Str_STR, C_k, <<"}">>, N_t>>) \o <<";">>
\* PRINT TABLE t;   and the empty text
SrcPrint == Join(<<KW_PRINT, KW_TABLE, N_t>>) \o <<";">>
SrcEmpty == <<>>

Sources ==
    {SrcCreate, SrcCreateStrict, SrcCreateIfAbsent, SrcInsert, SrcDeleteT, SrcRemoveT,
     SrcScript, SrcPrint, SrcEmpty, SrcCreateDup}

BatchStatements ==
    {CreateTableStatement(N_t, SchUnic, FALSE), InsertStatement(N_t, Dict1(C_k, V_x)),
     DeleteTableStatement(N_t)}

Batches == UNION {[1..n -> BatchStatements] : n \in 0..MaxBatch}

\* the shell and the library called with whole statement lists and source texts
NextBatch ==
    \/ \E b \in Batches : BeginBatch(b)
    \/ \E src \in Sources : BeginSource(src)
    \/ StepQueued
    \/ Finish

SpecBatch == Init /\ [][NextBatch]_vars

\* C6: a call with the source text REMOVE TABLE t; that has ended has ended the
\* way DELETE TABLE t; ends: the text parsed, and either table t was absent and
\* the call raised the table-does-not-exist error, or the statement ran and the
\* store holds no table t.
C6_RemoveTableEndsAsDeleteTable ==
    (call.kind = "source" /\ call.src = SrcRemoveT /\ pc = "idle") =>
        /\ call.err = "none"
        /\ \/ last.err = Err("TableNotFound", N_t) /\ ~DictHas(last.before, N_t)
           \/ last.err = NoErr /\ DictHas(last.before, N_t) /\ ~DictHas(tables, N_t)

\* C8: CreateTable on a name that exists raises 'already exists' when
\* if_not_exists is false and raises nothing when it is true, the store staying
\* as it was in both cases; on a name that does not exist it adds the table
\* with the declared columns and no rows and leaves the other tables alone.
\* The source forms give if_not_exists: false by default and for IF EXISTS IS
\* TRUE, true for IF EXISTS IS FALSE.
C8_CreateTableOnExistingName ==
    /\ last.stmt.kind = "CreateTable" =>
          IF DictHas(last.before, last.stmt.table.name)
          THEN /\ tables = last.before
               /\ last.err = IF last.stmt.if_not_exists THEN NoErr
                             ELSE Err("AlreadyExists", last.stmt.table.name)
          ELSE /\ last.err = NoErr
               /\ tables = Append(last.before,
                                  [name |-> last.stmt.table.name,
                                   columns |-> last.stmt.table.columns, data |-> <<>>])
    /\ (call.kind = "source" /\ call.src \in {SrcCreate, SrcCreateStrict, SrcCreateIfAbsent}) =>
          /\ call.err = "none"
          /\ batch = <<CASE call.src = SrcCreate -> CreateTableStatement(N_t, SchUnic, FALSE)
                         [] call.src = SrcCreateStrict -> CreateTableStatement(N_t, SchN, FALSE)
                         [] call.src = SrcCreateIfAbsent -> CreateTableStatement(N_t, SchN, TRUE)>>

\* NEW TABLE IF EXISTS IS FALSE { STR n } t; ran on a store whose table t has
\* the column k and a row
C8_IfAbsentKeepsTable ==
    /\ call.kind = "source" /\ call.src = SrcCreateIfAbsent
    /\ last.stmt = CreateTableStatement(N_t, SchN, TRUE)
    /\ DictHas(last.before, N_t)
    /\ DictGet(tables, N_t).columns = SchUnic
    /\ Len(DictGet(tables, N_t).data) >= 1
    /\ last.err = NoErr

\* the store after statements 1..k of stmts, applied in order from tbls
RECURSIVE Effects(_, _, _, _)
Effects(tbls, stmts, k, nu) ==
    IF k = 0 THEN [tables |-> tbls, nu |-> nu]
    ELSE LET prev == Effects(tbls, stmts, k - 1, nu)
         IN  [tables |-> ApplyStmt(prev.tables, stmts[k], prev.nu).tables,
              nu |-> ApplyStmt(prev.tables, stmts[k], prev.nu).nu]

\* C9: when a statement of a batch raises, the call is over (no later statement
\* runs), the statement that raised is the first one not counted as applied, and
\* the store holds exactly the effects of the statements before it, applied in
\* order to the loaded store: the failing statement changed nothing and the
\* earlier ones are not rolled back.
C9_FailureKeepsEarlierEffects ==
    (call.kind \in {"statements", "source"} /\ call.err = "none" /\ last.err # NoErr) =>
        /\ pc = "idle"
        /\ steps < Len(batch)
        /\ last.stmt = batch[steps + 1]
        /\ tables = last.before
        /\ tables = Effects(loaded.tables, batch, steps, call.nu).tables

\* the third statement of a list raised after the first two had changed the store
C9_FailedAfterTwoEffects ==
    /\ call.kind = "statements"
    /\ last.err # NoErr
    /\ steps = 2
    /\ tables # loaded.tables
    /\ Effects(loaded.tables, batch, 1, call.nu).tables # loaded.tables
    /\ Effects(loaded.tables, batch, 2, call.nu).tables # Effects(loaded.tables, batch, 1, call.nu).tables

----------------------------------------------------------------------------
(* The PRIMARY threshold: SpecMain *)

MainStatements ==
    {CreateTableStatement(N_t, SchMain, TRUE), InsertStatement(N_t, Dict1(C_k, V_x)),
     DeleteStatement(N_t, Dict1(C_k, V_x)), PrintTableStatement(N_t)}

\* calls on a table { MAIN STR k }, which may grow to the PRIMARY threshold
NextMain ==
    \/ BeginFree
    \/ \E stmt \in MainStatements : StepMain(stmt)
    \/ Finish

SpecMain == Init /\ [][NextMain]_vars

\* C4: for a column declared MAIN only whose type is not UUID, an Insert
\* supplying v is rejected with the MAIN violation exactly when at least ten rows
\* of the table already hold v in that column; the rejected Insert leaves the
\* store as it was and an Insert that raises nothing appends the supplied row
\* (so the 10th insert of a value succeeds and the 11th fails).
C4_MainRejectsAtTen ==
    InsertedInto =>
        \A i \in DOMAIN TableBefore.columns :
            LET col == TableBefore.columns[i]
                held == HoldCount(TableBefore.data, col.name, last.stmt.values[col.name])
            IN  (/\ Has(col, Str_PRIMARY) /\ ~Has(col, Str_UNIQUE)
                 /\ ~IsSubstring(Str_UUID, col.type)
                 /\ FirstSupplied(TableBefore.columns, i, last.stmt.values))
                => /\ (last.err = Err("Main", col.name)) <=> (held >= 10)
                   /\ last.err.kind \notin {"UnicMain", "Unic", "Validation"}
                   /\ last.err # NoErr => tables = last.before
                   /\ last.err = NoErr =>
                         TableAfter.data = Append(TableBefore.data, last.stmt.values)

\* the 11th insert of x into a MAIN column that holds x ten times is rejected
C4_EleventhInsertRejected ==
    /\ InsertedInto
    /\ TableBefore.columns = SchMain
    /\ last.stmt.values = Dict1(C_k, V_x)
    /\ HoldCount(TableBefore.data, C_k, V_x) = 10
    /\ last.err = Err("Main", C_k)

----------------------------------------------------------------------------
(* The codec on stores of every shape: SpecCodec *)

V_e == <<"e_acute", "x">>
C_a == <<"a">>
C_b == <<"b">>

\* no column; one column; two columns with constraints, an empty type and a
\* two-byte character in a name; the same column name declared twice
CodecSchemas ==
    {<<>>,
     <<Column(C_a, Str_STR, <<>>)>>,
     <<Column(V_e, Str_UUID, <<Str_UNIQUE, Str_PRIMARY>>), Column(C_b, <<>>, <<Str_PRIMARY>>)>>,
     <<Column(C_a, Str_STR, <<Str_UNIQUE>>), Column(C_a, Str_INT16, <<>>)>>}

CodecValues == {<<>>, V_e}

\* the rows of a table with the columns cols: one string per column name
RowsOf(cols) == [{cols[i].name : i \in DOMAIN cols} -> CodecValues]
SeqsUpTo(S, n) == UNION {[1..m -> S] : m \in 0..n}
CodecTables(name) ==
    UNION {{[name |-> name, columns |-> cols, data |-> data] :
                data \in SeqsUpTo(RowsOf(cols), MaxCodecRows)} : cols \in CodecSchemas}
CodecStores ==
    {<<>>} \cup {<<t>> : t \in CodecTables(V_e)}
           \cup {<<t, u>> : t \in CodecTables(N_t), u \in CodecTables(N_u)}

InitCodec ==
    /\ tables \in CodecStores
    /\ file = NoFile
    /\ pc = "store"
    /\ mode = "fresh"
    /\ steps = 0
    /\ loaded = [ok |-> TRUE, tables |-> <<>>]
    /\ last = NoLast
    /\ nextUuid = 0
    /\ batch = <<>>
    /\ call = NoCall
    /\ other = NoOther
    /\ shell = NoShell

\* save_to_file on the store; last.before keeps the store that was saved
SaveStore ==
    /\ pc = "store"
    /\ file' = FileOf(save_to_file(tables))
    /\ last' = [stmt |-> [kind |-> "save"], before |-> tables, err |-> NoErr]
    /\ pc' = "saved"
    /\ UNCHANGED <<tables, mode, steps, loaded, nextUuid, batch, call, other, shell>>

\* load_existing_data of the saved file on a new Compiler, whose tables are empty
LoadSaved ==
    /\ pc = "saved"
    /\ LET r == load_existing_data(file, <<>>)
       IN  /\ tables' = r.tables
           /\ loaded' = [ok |-> r.ok, tables |-> r.tables]
    /\ pc' = "loaded"
    /\ UNCHANGED <<file, mode, steps, last, nextUuid, batch, call, other, shell>>

NextCodec == SaveStore \/ LoadSaved

SpecCodec == InitCodec /\ [][NextCodec]_vars

\* C1: saving a store and loading the file into an empty store raises nothing
\* and yields the saved store: the same tables in the same order, each with the
\* same columns (name, type, constraints) in order and the same rows in order.
C1_RoundTrip ==
    pc = "loaded" => (loaded.ok /\ tables = last.before)

\* a store of two tables was loaded back, the first holding two different rows
\* over two columns, with a two-byte character in a name and in a value
C1_TwoTablesLoaded ==
    /\ pc = "loaded"
    /\ Len(last.before) = 2
    /\ Len(last.before[1].columns) = 2
    /\ last.before[1].columns[1].name = V_e
    /\ last.before[1].columns[2].name = C_b
    /\ Len(last.before[1].data) = 2
    /\ last.before[1].data[1] # last.before[1].data[2]
    /\ last.before[1].data[1][V_e] = V_e
    /\ last.before[1].data[1][C_b] = <<>>
    /\ Len(last.before[2].data) = 1

----------------------------------------------------------------------------
(* Files that do not decode: SpecCrash *)

CrashStatements ==
    {CreateTableStatement(N_t, SchUnic, TRUE), CreateTableStatement(N_u, SchUnic, TRUE),
     InsertStatement(N_t, Dict1(C_k, V_x))}

\* save_to_file interrupted after some k bytes: open(..., 'wb') has emptied the file
\* and the writes up to the crash are in it
CrashedSave ==
    /\ pc = "run"
    /\ \E k \in 0..(Len(save_to_file(tables)) - 1) :
          file' = FileOf(SubSeq(save_to_file(tables), 1, k))
    /\ pc' = "idle"
    /\ UNCHANGED <<tables, mode, steps, loaded, last, nextUuid, batch, call, other, shell>>

\* a file of another format stands at the path: its first four bytes are not DTB1
ForeignFile ==
    /\ pc = "idle"
    /\ file' = FileOf(<<80, 75, 3, 4>>)
    /\ UNCHANGED <<tables, pc, mode, steps, loaded, last, nextUuid, batch, call, other, shell>>

NextCrash ==
    \/ BeginFree
    \/ \E stmt \in CrashStatements : StepCrash(stmt)
    \/ Finish
    \/ CrashedSave
    \/ ForeignFile

SpecCrash == Init /\ [][NextCrash]_vars

\* C10: when the load at the start of a call raised, the call starts from an
\* empty store: no table decoded from the file is in it.
C10_FailedLoadStartsEmpty ==
    (call.kind = "free" /\ ~loaded.ok) => loaded.tables = <<>>

----------------------------------------------------------------------------
(* What a call leaves in the file, checked under SpecBatch *)

\* the call made last ran all its statements and saved
CallSaved ==
    /\ call.kind \in {"statements", "source"}
    /\ call.err = "none"
    /\ last.err = NoErr
    /\ pc = "idle"

\* C11: after a call in which every statement succeeded (a list of PRINT
\* statements and the empty list included), the file exists and decodes to the
\* store the call ended with, which is the decoded content of the file before the
\* call, changed by all the statements in order.
C11_FileHoldsFinalStore ==
    CallSaved =>
        /\ steps = Len(batch)
        /\ file.exists
        /\ load_existing_data(file, <<>>) = [ok |-> TRUE, tables |-> tables]
        /\ tables = Effects(load_existing_data(call.file, <<>>).tables, batch,
                            Len(batch), call.nu).tables

\* the empty text ran where no file was: the file now holds the empty store
C11_EmptyBatchWritesFile ==
    /\ CallSaved
    /\ call.src = SrcEmpty /\ call.kind = "source"
    /\ ~call.file.exists
    /\ file.exists

\* C20: when a statement of a call raised, the file after the call is the file
\* before the call (a file that did not exist still does not), whatever the
\* earlier statements changed in the store.
C20_FailedCallLeavesFile ==
    (call.kind \in {"statements", "source"} /\ last.err # NoErr) => file = call.file

\* a statement raised after earlier ones had filled the store, and no file exists
C20_FailedWithoutFile ==
    /\ call.kind \in {"statements", "source"}
    /\ last.err # NoErr
    /\ steps >= 1
    /\ tables # <<>>
    /\ ~file.exists

----------------------------------------------------------------------------
(* Two callers on one file: SpecRace *)

\* what the first caller runs, and what the second runs
RaceStatements ==
    {CreateTableStatement(N_t, SchUnic, TRUE), InsertStatement(N_t, Dict1(C_k, V_x))}
SecondCallerStatements ==
    {CreateTableStatement(N_u, SchUnic, TRUE), InsertStatement(N_u, Dict1(C_k, V_y))}

StepRace(stmt) ==
    /\ pc = "run"
    /\ steps < MaxRaceBatch
    /\ Applied(stmt, ApplyStmt(tables, stmt, nextUuid), MaxRaceRows)

\* the second caller's execute_command (main.py 36-45): a Compiler of its own
\* loads the file as it is now
OtherBegin ==
    /\ other.pc # "run"
    /\ other' = [pc |-> "run",
                 loaded |-> load_existing_data(file, <<>>).tables,
                 tables |-> load_existing_data(file, <<>>).tables,
                 stmts |-> <<>>, overwrote |-> NoFile, written |-> NoFile]
    /\ UNCHANGED <<tables, file, pc, mode, steps, loaded, last, nextUuid, batch, call, shell>>

\* one turn of the second caller's statement loop; an exception ends its call
OtherApplied(stmt, r) ==
    /\ r.nu <= MaxUuid
    /\ \A i \in DOMAIN r.tables : Len(r.tables[i].data) <= MaxRaceRows
    /\ nextUuid' = r.nu
    /\ other' = IF r.err = NoErr
                THEN [other EXCEPT !.tables = r.tables, !.stmts = Append(@, stmt)]
                ELSE [other EXCEPT !.pc = "failed"]
    /\ UNCHANGED <<tables, file, pc, mode, steps, loaded, last, batch, call, shell>>
OtherStep(stmt) ==
    /\ other.pc = "run"
    /\ Len(other.stmts) < MaxRaceBatch
    /\ OtherApplied(stmt, ApplyStmt(other.tables, stmt, nextUuid))

\* a variant of the second caller's save that first loads the file again
OtherFinish_Reloading ==
    /\ other.pc = "run"
    /\ file' = FileOf(save_to_file(load_existing_data(file, other.tables).tables))
    /\ other' = [other EXCEPT !.pc = "saved", !.overwrote = file, !.written = file']
    /\ UNCHANGED <<tables, pc, mode, steps, loaded, last, nextUuid, batch, call, shell>>

\* the second caller's save_to_file: the file it replaces and the file it writes
\* are kept
OtherFinish ==
    /\ other.pc = "run"
    /\ file' = FileOf(save_to_file(other.tables))
    /\ other' = [other EXCEPT !.pc = "saved", !.overwrote = file, !.written = file']
    /\ UNCHANGED <<tables, pc, mode, steps, loaded, last, nextUuid, batch, call, shell>>

NextRace ==
    \/ BeginFree
    \/ \E stmt \in RaceStatements : StepRace(stmt)
    \/ Finish
    \/ OtherBegin
    \/ \E stmt \in SecondCallerStatements : OtherStep(stmt)
    \/ OtherFinish

SpecRace == Init /\ [][NextRace]_vars

\* the first caller's last call saved, both callers had loaded the same content,
\* and the second caller's save replaced the file the first had written
SavedOverFirst ==
    /\ call.kind = "free" /\ pc = "idle" /\ last.err = NoErr
    /\ other.pc = "saved"
    /\ other.loaded = loaded.tables
    /\ other.overwrote = FileOf(save_to_file(tables))
    /\ file = other.written

\* C12: when both callers loaded the file before either saved and the second
\* saved after the first, the file is the second caller's store written whole:
\* what it loaded, changed by its own statements, and nothing of what the first
\* caller saved in between.
C12_LaterSaveOverwrites ==
    SavedOverFirst =>
        load_existing_data(file, <<>>) =
            [ok |-> TRUE, tables |-> Effects(other.loaded, other.stmts, Len(other.stmts), 0).tables]

\* a lost update: the first caller created table t and saved it, the second
\* saved after it, and the file has no table t
C12_LostUpdate ==
    /\ SavedOverFirst
    /\ DictHas(tables, N_t) /\ ~DictHas(loaded.tables, N_t)
    /\ DictHas(load_existing_data(other.overwrote, <<>>).tables, N_t)
    /\ ~DictHas(load_existing_data(file, <<>>).tables, N_t)
    /\ DictHas(load_existing_data(file, <<>>).tables, N_u)

----------------------------------------------------------------------------
(* BOOL values: SpecBool *)

C_active == <<"a", "c", "t", "i", "v", "e">>
\* NEW TABLE { BOOL active } t;
SchBool == <<Column(C_active, Str_BOOL, <<>>)>>
BoolValues ==
    {<<"0">>, <<"1">>, <<"2">>, <<"0", "1">>, <<"+", "1">>, <<" ", "1">>, <<"x">>, <<>>,
     <<"-", "1">>, <<"1", "0">>}
BoolStatements ==
    {CreateTableStatement(N_t, SchBool, FALSE)}
        \cup {InsertStatement(N_t, Dict1(C_active, v)) : v \in BoolValues}

StepBool(stmt) ==
    /\ pc = "run"
    /\ steps < MaxBatch
    /\ Applied(stmt, ApplyStmt(tables, stmt, nextUuid), MaxBoolRows)

NextBool ==
    \/ BeginFree
    \/ \E stmt \in BoolStatements : StepBool(stmt)
    \/ Finish

SpecBool == Init /\ [][NextBool]_vars

\* C13: an Insert that supplies a value for a BOOL column raises nothing and adds
\* its row only when the value is exactly "0" or exactly "1"; with any other
\* string it fails with the validation error and the store stays as it was.
C13_BoolAcceptsOnlyZeroOrOne ==
    InsertedInto =>
        \A i \in DOMAIN TableBefore.columns :
            LET col == TableBefore.columns[i] IN
            (col.type = Str_BOOL /\ col.name \in DOMAIN last.stmt.values) =>
                IF last.stmt.values[col.name] \in {<<"0">>, <<"1">>}
                THEN last.err = NoErr /\ Len(TableAfter.data) = Len(TableBefore.data) + 1
                ELSE last.err = Err("Validation", col.name) /\ tables = last.before

----------------------------------------------------------------------------
(* Tokenizer.tokenize on one lexeme: SpecLex *)

ToLower(text) ==
    [i \in DOMAIN text |-> IF text[i] \in Range(Upper) THEN Lower[IndexOf(Upper, text[i])]
                           ELSE text[i]]

\* the keyword table the grammar is documented with
KeywordTable ==
    keywords \cup {KW_REMOVE, <<"C","H","A","N","G","E">>, <<"V","A","L","U","E">>, <<"O","F">>,
                   Str_INT16, Str_INT32, Str_INT64, Str_CHAR, Str_BOOL}

\* lexemes: a letter, then letters, digits and underscores
Lexemes ==
    KeywordTable \cup {ToLower(k) : k \in KeywordTable}
        \cup {<<"T">>, <<"t">>, <<"F","O","O">>, <<"A","1">>, <<"X","_","Y">>, <<"k","_","1">>,
              <<"T","a","b","l","e">>, <<"n","E","W">>, <<"N","E","W","S">>, <<"N","E">>}

InitLex ==
    /\ tables = <<>> /\ file = NoFile /\ pc = "idle" /\ mode = "fresh" /\ steps = 0
    /\ loaded = [ok |-> TRUE, tables |-> <<>>] /\ last = NoLast /\ nextUuid = 0
    /\ batch = <<>> /\ other = NoOther /\ shell = NoShell
    /\ \E src \in Lexemes : call = [NoCall EXCEPT !.src = src]

\* Tokenizer(src).tokenize() (tokenizer.py 61-66): the list it returns, or the
\* SyntaxError it raises
Tokenized(r) ==
    /\ call' = [call EXCEPT !.kind = "tokenize",
                            !.err = IF r.ok THEN "none" ELSE "SyntaxError",
                            !.tokens = r.tokens]
    /\ UNCHANGED <<tables, file, pc, mode, steps, loaded, last, nextUuid, batch, other, shell>>
Tokenize ==
    /\ call.kind = "none"
    /\ Tokenized(tokenize(call.src))

NextLex == Tokenize

SpecLex == InitLex /\ [][NextLex]_vars

\* C14: tokenize turns a lexeme into one token carrying the lexeme, followed by
\* EOF; the token is the keyword's own token exactly when the lexeme is entirely
\* upper-case and in the keyword table, and an IDENTIFIER token in every other
\* case.
C14_KeywordIffUpperAndListed ==
    call.kind = "tokenize" =>
        /\ call.err = "none"
        /\ Len(call.tokens) = 2
        /\ call.tokens[1].value = call.src
        /\ call.tokens[2].type = TT_EOF
        /\ call.tokens[1].type = IF IsUpperStr(call.src) /\ call.src \in KeywordTable
                                 THEN call.src ELSE TT_IDENTIFIER

----------------------------------------------------------------------------
(* Deleting rows by condition: SpecRows *)

\* NEW TABLE { STR k, STR n } t;
SchKN == <<Column(C_k, Str_STR, <<>>), Column(C_n, Str_STR, <<>>)>>
RowsStatements ==
    {CreateTableStatement(N_t, SchKN, TRUE)}
        \cup {InsertStatement(N_t, Dict2(C_k, k, C_n, n)) : k \in {V_x, V_y}, n \in {V_x, V_y}}
        \cup {DeleteStatement(N_t, c) :
                c \in {<<>>, Dict1(C_k, V_x), Dict1(C_n, V_y), Dict2(C_k, V_x, C_n, V_y),
                       Dict1(C_id, V_x), Dict2(C_k, V_x, C_id, V_x)}}
        \cup {DeleteStatement(N_u, Dict1(C_k, V_x))}

StepRows(stmt) ==
    /\ pc = "run"
    /\ steps < MaxBatch
    /\ Applied(stmt, ApplyStmt(tables, stmt, nextUuid), MaxDelRows)

NextRows ==
    \/ BeginFree
    \/ \E stmt \in RowsStatements : StepRows(stmt)
    \/ Finish

SpecRows == Init /\ [][NextRows]_vars

\* the rows of data, by index, for which some condition fails: the column is
\* missing from the row or holds another string
FailingSome(data, conditions) ==
    {i \in DOMAIN data :
        \E k \in DOMAIN conditions : k \notin DOMAIN data[i] \/ data[i][k] # conditions[k]}

\* after holds exactly the rows of before whose index is in keep, in their order
KeptInOrder(before, after, keep) ==
    /\ Len(after) = Cardinality(keep)
    /\ \E f \in [DOMAIN after -> keep] :
          /\ \A i, j \in DOMAIN after : i < j => f[i] < f[j]
          /\ \A i \in DOMAIN after : after[i] = before[f[i]]

\* C15: a Delete on an existing table raises nothing, removes exactly the rows
\* for which every stated condition holds by string equality (a condition on a
\* column the row lacks does not hold), keeps the other rows in their order, and
\* leaves the schema and every other table alone; a Delete on a table that does
\* not exist fails and leaves the store as it was.
C15_DeleteRemovesMatchingRows ==
    last.stmt.kind = "Delete" =>
        IF DictHas(last.before, last.stmt.table_name)
        THEN /\ last.err = NoErr
             /\ KeptInOrder(TableBefore.data, TableAfter.data,
                            FailingSome(TableBefore.data, last.stmt.conditions))
             /\ TableAfter.columns = TableBefore.columns
             /\ Len(tables) = Len(last.before)
             /\ \A i \in DOMAIN tables :
                   /\ tables[i].name = last.before[i].name
                   /\ tables[i].name # last.stmt.table_name => tables[i] = last.before[i]
        ELSE last.err = Err("TableNotFound", last.stmt.table_name) /\ tables = last.before

\* of two rows the first meets both conditions and the second only one: the
\* Delete removed the first and kept the second
C15_DeletedOneOfTwo ==
    /\ last.stmt = DeleteStatement(N_t, Dict2(C_k, V_x, C_n, V_y))
    /\ DictHas(last.before, N_t)
    /\ TableBefore.data = <<Dict2(C_k, V_x, C_n, V_y), Dict2(C_k, V_x, C_n, V_x)>>
    /\ last.err = NoErr
    /\ TableAfter.data = <<Dict2(C_k, V_x, C_n, V_x)>>

----------------------------------------------------------------------------
(* Rows and declared columns, checked under Spec *)

\* the declared columns of cols, by index, that are not generated and for which
\* values supplies nothing
Unsupplied(cols, values) ==
    {i \in DOMAIN cols :
        /\ ~(IsSubstring(Str_UUID, cols[i].type) /\ Has(cols[i], Str_PRIMARY))
        /\ cols[i].name \notin DOMAIN values}

FirstUnsupplied(cols, values) ==
    CHOOSE i \in Unsupplied(cols, values) : \A j \in Unsupplied(cols, values) : i <= j

----------------------------------------------------------------------------
(* Column names of a schema, checked under SpecBatch *)

\* C17: in every store reached by parsing and executing source text, the column
\* names of each table's schema are pairwise distinct.
C17_ColumnNamesDistinct ==
    call.kind = "source" =>
        \A t \in DOMAIN tables : \A i, j \in DOMAIN tables[t].columns :
            i # j => tables[t].columns[i].name # tables[t].columns[j].name

----------------------------------------------------------------------------
(* The module-level facade of __init__.py: SpecFacade *)

\* a script that creates table t and then fails on creating it again
SrcCreateTwice == SrcCreate \o <<"\n">> \o SrcCreate
FacadeSources == {SrcCreate, SrcInsert, SrcRemoveT, SrcPrint, SrcCreateTwice}

\* init(db_file) (__init__.py 11-19, 152-166): _instance becomes a Ditabase with
\* a Compiler of its own that loads the file; an exception of the load is printed
FacadeLoaded(r) ==
    /\ mode' = "shared"
    /\ tables' = r.tables
    /\ loaded' = [ok |-> r.ok, tables |-> r.tables]
    /\ steps' = 0
    /\ last' = NoLast
    /\ batch' = <<>>
    /\ call' = [NoCall EXCEPT !.kind = "init", !.nu = nextUuid, !.file = file]
    /\ UNCHANGED <<file, pc, nextUuid, other, shell>>
FacadeInit ==
    /\ pc = "idle"
    /\ FacadeLoaded(load_existing_data(file, <<>>))

\* "if _instance is None: raise RuntimeError" (__init__.py 32-33, 60-61)
NotInitialized(kind, src) ==
    /\ call' = [NoCall EXCEPT !.kind = kind, !.src = src, !.err = "RuntimeError",
                              !.nu = nextUuid, !.file = file]
    /\ batch' = <<>>
    /\ last' = NoLast
    /\ UNCHANGED <<tables, file, pc, mode, steps, loaded, nextUuid, other, shell>>

\* execute_file(file_name) (__init__.py 21-49) on a file holding src
ExecuteFile(src) ==
    /\ pc = "idle"
    /\ IF mode = "shared"
       THEN SourceParsed(src, ParseSource(src))
       ELSE NotInitialized("source", src)
    /\ UNCHANGED shell

\* execute(command) (__init__.py 51-63): with an instance, _instance.execute(command)
\* is entered; depth counts the frames of Ditabase.execute
FacadeExecute(src) ==
    /\ pc = "idle"
    /\ IF mode = "shared"
       THEN /\ pc' = "facade"
            /\ call' = [NoCall EXCEPT !.kind = "facade", !.src = src, !.nu = nextUuid,
                                      !.file = file, !.depth = 1]
            /\ batch' = <<>>
            /\ last' = NoLast
            /\ UNCHANGED <<tables, file, mode, steps, loaded, nextUuid, other, shell>>
       ELSE NotInitialized("facade", src) /\ UNCHANGED shell

\* Ditabase.execute (__init__.py 168-180): _instance is not None, and the body's
\* one statement is _instance.execute(command), the method itself
FacadeRecurse ==
    /\ pc = "facade"
    /\ call.depth < MaxDepth
    /\ call' = [call EXCEPT !.depth = @ + 1]
    /\ UNCHANGED <<tables, file, pc, mode, steps, loaded, last, nextUuid, batch, other, shell>>

\* at the interpreter's limit the next call raises RecursionError, which no
\* frame catches
FacadeOverflow ==
    /\ pc = "facade"
    /\ call.depth = MaxDepth
    /\ call' = [call EXCEPT !.err = "RecursionError"]
    /\ pc' = "idle"
    /\ UNCHANGED <<tables, file, mode, steps, loaded, last, nextUuid, batch, other, shell>>

NextFacade ==
    \/ FacadeInit
    \/ \E src \in FacadeSources : ExecuteFile(src)
    \/ StepQueued
    \/ Finish
    \/ \E src \in FacadeSources : FacadeExecute(src)
    \/ FacadeRecurse
    \/ FacadeOverflow

SpecFacade == Init /\ [][NextFacade]_vars

\* C18: once init has run, execute(command) does not call itself again and
\* again: Ditabase.execute is entered once, and the call ends by returning or
\* with an error of the command, never with the interpreter's RecursionError.
C18_FacadeExecuteTerminates ==
    (call.kind = "facade" /\ mode = "shared") =>
        /\ call.depth <= 1
        /\ call.err # "RecursionError"

----------------------------------------------------------------------------
(* The interactive shell of main.py: SpecShell *)

\* NEW TABLE {      UNIC STR k      } t;
LineOpen == Join(<<KW_NEW, KW_TABLE, <<"{">>>>)
LineColumn == Join(<<KW_UNIC, Str_STR, C_k>>)
LineClose == Join(<<<<"}">>, N_t>>) \o <<";">>
Lines == {LineOpen, LineColumn, LineClose, SrcInsert, SrcDeleteT}

\* '\n'.join(lines)
RECURSIVE JoinLines(_)
JoinLines(lines) ==
    IF Len(lines) = 0 THEN <<>>
    ELSE IF Len(lines) = 1 THEN lines[1]
    ELSE lines[1] \o <<"\n">> \o JoinLines(Tail(lines))

\* line.strip().endswith(';')
EndsCommand(line) == Len(Strip(line)) > 0 /\ Strip(line)[Len(Strip(line))] = ";"

\* the line is kept: nothing is executed
Buffered(line) ==
    /\ Len(shell.multiline_buffer) < MaxLines
    /\ shell' = [multiline_buffer |-> Append(shell.multiline_buffer, line), in_multiline |-> TRUE]
    /\ UNCHANGED <<tables, file, pc, mode, steps, loaded, last, nextUuid, batch, call, other>>

\* execute_command(command) (main.py 36-45) with the buffer left empty
Forwarded(command) ==
    /\ shell' = NoShell
    /\ SourceParsed(command, ParseSource(command))

\* DitabaseShell.default(line) (main.py 18-34); the next line is read when the
\* command the last one forwarded has run
ShellLine(line) ==
    /\ pc = "idle"
    /\ IF shell.in_multiline
       THEN IF EndsCommand(line)
            THEN Forwarded(JoinLines(Append(shell.multiline_buffer, line)))
            ELSE Buffered(line)
       ELSE IF \E i \in DOMAIN line : line[i] = "{"
            THEN Buffered(line)
            ELSE Forwarded(line)

NextShell ==
    \/ \E line \in Lines : ShellLine(line)
    \/ StepQueued
    \/ Finish

SpecShell == Init /\ [][NextShell]_vars

\* the line's braces are balanced, it ends with ';', and it parses on its own
\* as one statement or more
CompleteLine(line) ==
    /\ Cardinality({i \in DOMAIN line : line[i] = "{"})
          = Cardinality({i \in DOMAIN line : line[i] = "}"})
    /\ EndsCommand(line)
    /\ ParseSource(line).ok
    /\ ParseSource(line).statements # <<>>

\* C19: the shell never holds back a line that is a complete statement with
\* balanced braces and a final ';': such a line is forwarded when it is entered
\* and is not in the buffer afterwards.
C19_CompleteLineNotBuffered ==
    \A i \in DOMAIN shell.multiline_buffer : ~CompleteLine(shell.multiline_buffer[i])

----------------------------------------------------------------------------
(* What a call on the facade's one Compiler starts from, checked under SpecFacade *)

\* C21: every execute_file call on the facade's Compiler starts from exactly the
\* content of the file as it was when the call began, and a call that raises
\* nothing leaves in the file that content changed by its own statements: a
\* table held in memory and absent from the file is neither present when the
\* statements are applied nor written by the call.
C21_CallStartsFromFile ==
    (mode = "shared" /\ call.kind = "source" /\ call.err = "none") =>
        /\ loaded.tables = load_existing_data(call.file, <<>>).tables
        /\ (pc = "idle" /\ last.err = NoErr) =>
              load_existing_data(file, <<>>).tables
                  = Effects(load_existing_data(call.file, <<>>).tables,
                            batch, Len(batch), call.nu).tables

====
